---- MODULE Spec2Model ----
(***************************************************************************)
(* Model of src/optimization/optimizer.py: AdvancedPromptOptimizer.        *)
(*                                                                         *)
(* Text is modelled at character level: a Python str is a sequence of      *)
(* one-character strings.  The regular expressions of the program are      *)
(* sequences of regex tokens: a one-character string is a literal, "\\b"   *)
(* is the word-boundary assertion and "\\s+" is a greedy whitespace run.   *)
(* Fractions (impact weights, estimates) are kept exact: a weight w of the *)
(* source is the integer 100*w, and an estimate is a pair num/den.         *)
(***************************************************************************)
EXTENDS Integers, Sequences, FiniteSets, TLC

(***************************************************************************)
(* Characters                                                              *)
(***************************************************************************)
UpperToLower ==
    ("A" :> "a") @@ ("B" :> "b") @@ ("C" :> "c") @@ ("D" :> "d") @@ ("E" :> "e") @@
    ("F" :> "f") @@ ("G" :> "g") @@ ("H" :> "h") @@ ("I" :> "i") @@ ("J" :> "j") @@
    ("K" :> "k") @@ ("L" :> "l") @@ ("M" :> "m") @@ ("N" :> "n") @@ ("O" :> "o") @@
    ("P" :> "p") @@ ("Q" :> "q") @@ ("R" :> "r") @@ ("S" :> "s") @@ ("T" :> "t") @@
    ("U" :> "u") @@ ("V" :> "v") @@ ("W" :> "w") @@ ("X" :> "x") @@ ("Y" :> "y") @@
    ("Z" :> "z")

UpperLetters == DOMAIN UpperToLower

LowerLetters == {UpperToLower[c] : c \in UpperLetters}

Digits == {"0", "1", "2", "3", "4", "5", "6", "7", "8", "9"}

\* \w of the re module: letters, digits and the underscore.
WordChars == UpperLetters \cup LowerLetters \cup Digits \cup {"_"}

IsWordChar(c) == c \in WordChars

\* \s of the re module and the characters str.strip() removes.
IsSpace(c) == c \in {" ", "\t", "\n", "\r", "\f"}

\* str.lower() on one character; also the case folding of re.IGNORECASE.
LowerChar(c) == IF c \in UpperLetters THEN UpperToLower[c] ELSE c

\* str.lower()
Lower(s) == [i \in 1..Len(s) |-> LowerChar(s[i])]

(***************************************************************************)
(* Regular expressions: re.sub(pattern, repl, string, flags)               *)
(***************************************************************************)
\* \b at position i (between s[i-1] and s[i]): exactly one side is a word character.
AtWordBoundary(s, i) ==
    LET before == i > 1 /\ IsWordChar(s[i - 1])
        after  == i <= Len(s) /\ IsWordChar(s[i])
    IN  before # after

\* The end of the maximal whitespace run that starts at position i: the first
\* position from i on that holds no whitespace character.
SkipSpace(s, i) ==
    IF i > Len(s) \/ ~IsSpace(s[i]) THEN i
    ELSE LET stops == {j \in i..Len(s) : ~IsSpace(s[j])}
         IN  IF stops = {} THEN Len(s) + 1
             ELSE CHOOSE j \in stops : \A q \in stops : j <= q

IsLiteral(token) == token \notin {"\\b", "\\s+"}

\* The number of consecutive literal tokens of pat from index k on.
LiteralRun(pat, k) ==
    LET others == {j \in k..Len(pat) : ~IsLiteral(pat[j])}
    IN  IF others = {} THEN Len(pat) + 1 - k
        ELSE (CHOOSE j \in others : \A q \in others : j <= q) - k

\* One literal token against one character, under re.IGNORECASE or not.
SameChar(c, token, ignorecase) ==
    IF ignorecase THEN LowerChar(c) = LowerChar(token) ELSE c = token

\* Match the tokens pat[k..] at position i of s.  The result is the position
\* after the match, or 0 when there is no match.  A run of literal tokens is
\* compared character by character.  A "\\s+" run is always followed, in the
\* program's patterns, by a non-space literal or by the end of the pattern,
\* so the greedy run never has to give characters back.
RECURSIVE MatchFrom(_, _, _, _, _)
MatchFrom(pat, s, ignorecase, k, i) ==
    IF k > Len(pat) THEN i
    ELSE IF pat[k] = "\\b"
         THEN IF AtWordBoundary(s, i) THEN MatchFrom(pat, s, ignorecase, k + 1, i) ELSE 0
    ELSE IF pat[k] = "\\s+"
         THEN LET j == SkipSpace(s, i)
              IN  IF j > i THEN MatchFrom(pat, s, ignorecase, k + 1, j) ELSE 0
    ELSE IF i > Len(s) \/ ~SameChar(s[i], pat[k], ignorecase) THEN 0
    ELSE LET n == LiteralRun(pat, k)
         IN  IF /\ i + n - 1 <= Len(s)
                /\ \A d \in 1..(n - 1) : SameChar(s[i + d], pat[k + d], ignorecase)
             THEN MatchFrom(pat, s, ignorecase, k + n, i + n)
             ELSE 0

\* The token of a replacement that stands for the five characters \g<0>.
GroupReference == "\\g<0>"

\* The replacement of re.sub is a template: a reference to group 0 expands to
\* the matched text, every other token is a character emitted as it is.
RECURSIVE Expand(_, _)
Expand(repl, matched) ==
    IF repl = <<>> THEN <<>>
    ELSE (IF Head(repl) = GroupReference THEN matched ELSE <<Head(repl)>>)
         \o Expand(Tail(repl), matched)

\* The scan of re.sub over the match ends of every start position (ends[p] is
\* the end of the match that starts at p, 0 for none): from position i the
\* leftmost matching start p is taken, the characters before it are copied,
\* the expanded repl is emitted and the scan goes on after the match.  Every
\* pattern of the program consumes at least one character, so no match is
\* empty.
RECURSIVE SubFrom(_, _, _, _, _)
SubFrom(repl, s, ends, i, out) ==
    LET later == {p \in DOMAIN ends : p >= i /\ ends[p] > p}
    IN  IF later = {} THEN out \o SubSeq(s, i, Len(s))
        ELSE LET p == CHOOSE p \in later : \A q \in later : p <= q
             IN  SubFrom(repl, s, ends, ends[p],
                         out \o SubSeq(s, i, p - 1) \o Expand(repl, SubSeq(s, p, ends[p] - 1)))

ReSub(pat, repl, s, ignorecase) ==
    IF Len(s) = 0 THEN s
    ELSE SubFrom(repl, s, [p \in 1..Len(s) |-> MatchFrom(pat, s, ignorecase, 1, p)], 1, <<>>)

\* re.escape(original): every character of the phrase is a literal.
ReEscape(phrase) == phrase

\* "original in text": the phrase occurs as a substring, compared exactly.
Contains(text, phrase) ==
    \E i \in 1..(Len(text) - Len(phrase) + 1) :
        \A k \in 1..Len(phrase) : text[i + k - 1] = phrase[k]

\* str.strip(): the text between the first and the last non-whitespace character.
Strip(s) ==
    LET kept == {i \in 1..Len(s) : ~IsSpace(s[i])}
    IN  IF kept = {} THEN <<>>
        ELSE SubSeq(s, CHOOSE i \in kept : \A q \in kept : i <= q,
                       CHOOSE i \in kept : \A q \in kept : i >= q)

\* The clean-up without the final .strip().
CleanWhitespaceUnstripped(s) == ReSub(<<"\\s+">>, <<" ">>, s, FALSE)

\* re.sub(r'\s+', ' ', optimized).strip()
CleanWhitespace(s) == Strip(ReSub(<<"\\s+">>, <<" ">>, s, FALSE))

\* str.replace(' ', '_')
ReplaceSpaces(s) == [i \in 1..Len(s) |-> IF s[i] = " " THEN "_" ELSE s[i]]

(***************************************************************************)
(* AdvancedPromptOptimizer.base_rules                                      *)
(***************************************************************************)
\* The four rule groups in dictionary (insertion) order.  Each pattern is a
\* pair <<regex tokens, replacement>>; impact is 100 times the source's weight.
base_rules == <<
    [name |-> <<"r", "e", "m", "o", "v", "e", "_", "p", "o", "l", "i", "t", "e", "n", "e", "s", "s">>,
     patterns |-> <<
        << <<"\\b", "p", "l", "e", "a", "s", "e", "\\s+">>, <<>> >>,
        << <<"\\b", "c", "o", "u", "l", "d", " ", "y", "o", "u", "\\s+">>, <<>> >>,
        << <<"\\b", "w", "o", "u", "l", "d", " ", "y", "o", "u", "\\s+">>, <<>> >>,
        << <<"\\b", "I", " ", "w", "o", "u", "l", "d", " ", "l", "i", "k", "e", " ",
             "y", "o", "u", " ", "t", "o", "\\s+">>, <<>> >>,
        << <<"\\b", "c", "a", "n", " ", "y", "o", "u", " ", "p", "l", "e", "a", "s", "e", "\\s+">>,
           <<>> >> >>,
     impact |-> 5],
    [name |-> <<"s", "i", "m", "p", "l", "i", "f", "y", "_", "i", "n", "s", "t", "r", "u", "c",
                "t", "i", "o", "n", "s">>,
     patterns |-> <<
        << <<"\\b", "p", "r", "o", "v", "i", "d", "e", " ", "a", " ", "d", "e", "t", "a", "i",
             "l", "e", "d", " ", "e", "x", "p", "l", "a", "n", "a", "t", "i", "o", "n", " ",
             "o", "f", "\\b">>,
           <<"e", "x", "p", "l", "a", "i", "n">> >>,
        << <<"\\b", "g", "i", "v", "e", " ", "m", "e", " ", "a", " ", "c", "o", "m", "p", "r",
             "e", "h", "e", "n", "s", "i", "v", "e", " ", "o", "v", "e", "r", "v", "i", "e",
             "w", " ", "o", "f", "\\b">>,
           <<"d", "e", "s", "c", "r", "i", "b", "e">> >>,
        << <<"\\b", "I", " ", "n", "e", "e", "d", " ", "y", "o", "u", " ", "t", "o", " ", "a",
             "n", "a", "l", "y", "z", "e", "\\b">>,
           <<"a", "n", "a", "l", "y", "z", "e">> >>,
        << <<"\\b", "c", "a", "n", " ", "y", "o", "u", " ", "h", "e", "l", "p", " ", "m", "e",
             " ", "u", "n", "d", "e", "r", "s", "t", "a", "n", "d", "\\b">>,
           <<"e", "x", "p", "l", "a", "i", "n">> >> >>,
     impact |-> 10],
    [name |-> <<"r", "e", "m", "o", "v", "e", "_", "v", "e", "r", "b", "o", "s", "e", "_", "m",
                "o", "d", "i", "f", "i", "e", "r", "s">>,
     patterns |-> <<
        << <<"\\s+", "i", "n", " ", "g", "r", "e", "a", "t", " ", "d", "e", "t", "a", "i", "l",
             "\\b">>, <<>> >>,
        << <<"\\s+", "t", "h", "o", "r", "o", "u", "g", "h", "l", "y", "\\b">>, <<>> >>,
        << <<"\\s+", "c", "o", "m", "p", "r", "e", "h", "e", "n", "s", "i", "v", "e", "l", "y",
             "\\b">>, <<>> >>,
        << <<"\\s+", "e", "x", "t", "e", "n", "s", "i", "v", "e", "l", "y", "\\b">>, <<>> >>,
        << <<"\\s+", "a", "s", " ", "m", "u", "c", "h", " ", "a", "s", " ", "p", "o", "s", "s",
             "i", "b", "l", "e", "\\b">>, <<>> >> >>,
     impact |-> 15],
    [name |-> <<"r", "e", "m", "o", "v", "e", "_", "r", "e", "d", "u", "n", "d", "a", "n", "t",
                "_", "i", "n", "s", "t", "r", "u", "c", "t", "i", "o", "n", "s">>,
     patterns |-> <<
        << <<"\\b", "m", "a", "k", "e", " ", "s", "u", "r", "e", " ", "t", "o", "\\s+">>, <<>> >>,
        << <<"\\b", "b", "e", " ", "s", "u", "r", "e", " ", "t", "o", "\\s+">>, <<>> >>,
        << <<"\\b", "d", "o", "n", "'", "t", " ", "f", "o", "r", "g", "e", "t", " ", "t", "o",
             "\\s+">>, <<>> >> >>,
     impact |-> 5] >>

\* The inline allowlist of apply_learned_rules.
SafeKeywords == <<
    <<"t", "h", "o", "r", "o", "u", "g", "h", "l", "y">>,
    <<"e", "x", "t", "e", "n", "s", "i", "v", "e", "l", "y">>,
    <<"c", "o", "m", "p", "r", "e", "h", "e", "n", "s", "i", "v", "e", "l", "y">> >>

\* 100 * 0.20, the weight of the length reduction.
LengthWeight == 20

\* 100 * 0.50, the cap of the latency estimate.
LatencyCap == 50

\* 100 * 0.85, the energy share of the latency estimate.
EnergyShare == 85

Range(f) == {f[i] : i \in DOMAIN f}

Min(a, b) == IF a <= b THEN a ELSE b

Abs(a) == IF a < 0 THEN 0 - a ELSE a

(***************************************************************************)
(* optimize: the base rule groups                                          *)
(***************************************************************************)
\* The pattern loop without flags=re.IGNORECASE.
RECURSIVE ApplyPatternsCaseSensitive(_, _, _)
ApplyPatternsCaseSensitive(patterns, k, text) ==
    IF k > Len(patterns) THEN text
    ELSE LET next == ReSub(patterns[k][1], patterns[k][2], text, FALSE)
         IN  IF next = text
             THEN ApplyPatternsCaseSensitive(patterns, k + 1, text)
             ELSE ApplyPatternsCaseSensitive(patterns, k + 1, next)

\* for pattern, replacement in rule_data['patterns']: optimized = re.sub(...)
\* (A substitution that matched nowhere returns the text it was given.)
RECURSIVE ApplyPatterns(_, _, _)
RECURSIVE NextPattern(_, _, _, _)
ApplyPatterns(patterns, k, text) ==
    IF k > Len(patterns) THEN text
    ELSE NextPattern(patterns, k, text, ReSub(patterns[k][1], patterns[k][2], text, TRUE))

\* The loop goes on with the text next that the substitution returned.
NextPattern(patterns, k, text, next) ==
    IF next = text
    THEN ApplyPatterns(patterns, k + 1, text)
    ELSE ApplyPatterns(patterns, k + 1, next)

\* The base loop with the name appended inside the pattern loop, once for
\* every pattern that changed the text.
ApplyBaseRulesPerPattern(rules, g, text, changes) ==
    LET RECURSIVE Go(_, _, _, _)
        Go(gg, k, t, ch) ==
            IF gg > Len(rules) THEN [optimized |-> t, changes |-> ch]
            ELSE IF k > Len(rules[gg].patterns) THEN Go(gg + 1, 1, t, ch)
            ELSE LET next == ReSub(rules[gg].patterns[k][1], rules[gg].patterns[k][2], t, TRUE)
                 IN  IF next # t
                     THEN Go(gg, k + 1, next, Append(ch, rules[gg].name))
                     ELSE Go(gg, k + 1, t, ch)
    IN  Go(g, 1, text, changes)

\* The base loop walking the groups from the last to the first.
ApplyBaseRulesReversed(rules, g, text, changes) ==
    LET RECURSIVE Go(_, _, _)
        Go(gg, t, ch) ==
            IF gg < g THEN [optimized |-> t, changes |-> ch]
            ELSE LET after == ApplyPatterns(rules[gg].patterns, 1, t)
                 IN  IF after # t
                     THEN Go(gg - 1, after, Append(ch, rules[gg].name))
                     ELSE Go(gg - 1, after, ch)
    IN  Go(Len(rules), text, changes)

\* for rule_name, rule_data in self.base_rules.items(): the group's name is
\* appended when the group's patterns changed the text.
\* The group loop with the name appended whether or not the text changed.
RECURSIVE ApplyBaseRulesUnconditional(_, _, _, _)
ApplyBaseRulesUnconditional(rules, g, text, changes) ==
    IF g > Len(rules) THEN [optimized |-> text, changes |-> changes]
    ELSE ApplyBaseRulesUnconditional(rules, g + 1, ApplyPatterns(rules[g].patterns, 1, text),
                                     Append(changes, rules[g].name))

RECURSIVE ApplyBaseRules(_, _, _, _)
RECURSIVE NextBaseRule(_, _, _, _, _)
ApplyBaseRules(rules, g, text, changes) ==
    IF g > Len(rules) THEN [optimized |-> text, changes |-> changes]
    ELSE NextBaseRule(rules, g, text, changes, ApplyPatterns(rules[g].patterns, 1, text))

\* if optimized != before: changes.append(rule_name), with the text after
\* that the patterns of group g returned
NextBaseRule(rules, g, text, changes, after) ==
    IF after # text
    THEN ApplyBaseRules(rules, g + 1, after, Append(changes, rules[g].name))
    ELSE ApplyBaseRules(rules, g + 1, after, changes)

(***************************************************************************)
(* apply_learned_rules                                                     *)
(***************************************************************************)
Replaced == <<"r", "e", "p", "l", "a", "c", "e", "d", "_">>

Removed == <<"r", "e", "m", "o", "v", "e", "d", "_">>

\* for original, replacement in recommended_alternatives.items()
RECURSIVE ApplyAlternatives(_, _, _, _)
ApplyAlternatives(alternatives, k, text, changes) ==
    IF k > Len(alternatives) THEN [optimized |-> text, changes |-> changes]
    ELSE LET original    == alternatives[k][1]
             replacement == alternatives[k][2]
         IN  IF Contains(Lower(text), original)
             THEN ApplyAlternatives(alternatives, k + 1,
                      ReSub(ReEscape(original), replacement, text, TRUE),
                      Append(changes, Replaced \o ReplaceSpaces(original)))
             ELSE ApplyAlternatives(alternatives, k + 1, text, changes)

\* The keyword loop with a case-sensitive substitution.
RECURSIVE RemoveKeywordsCaseSensitive(_, _, _, _)
RemoveKeywordsCaseSensitive(keywords, k, text, changes) ==
    IF k > Len(keywords) THEN [optimized |-> text, changes |-> changes]
    ELSE IF keywords[k] \in Range(SafeKeywords)
         THEN RemoveKeywordsCaseSensitive(keywords, k + 1,
                  ReSub(<<"\\b">> \o keywords[k] \o <<"\\b">>, <<>>, text, FALSE),
                  Append(changes, Removed \o keywords[k]))
         ELSE RemoveKeywordsCaseSensitive(keywords, k + 1, text, changes)

\* The keyword loop without the allowlist test.
RECURSIVE RemoveKeywordsUnfiltered(_, _, _, _)
RemoveKeywordsUnfiltered(keywords, k, text, changes) ==
    IF k > Len(keywords) THEN [optimized |-> text, changes |-> changes]
    ELSE RemoveKeywordsUnfiltered(keywords, k + 1,
             ReSub(<<"\\b">> \o keywords[k] \o <<"\\b">>, <<>>, text, TRUE),
             Append(changes, Removed \o keywords[k]))

\* for keyword in high_cost_keywords: an allowlisted keyword is removed as a
\* whole word and its tag is appended.
RECURSIVE RemoveKeywords(_, _, _, _)
RemoveKeywords(keywords, k, text, changes) ==
    IF k > Len(keywords) THEN [optimized |-> text, changes |-> changes]
    ELSE IF keywords[k] \in Range(SafeKeywords)
         THEN RemoveKeywords(keywords, k + 1,
                  ReSub(<<"\\b">> \o keywords[k] \o <<"\\b">>, <<>>, text, TRUE),
                  Append(changes, Removed \o keywords[k]))
         ELSE RemoveKeywords(keywords, k + 1, text, changes)

\* if 'recommended_alternatives' in self.learned_rules: ...
AlternativesStep(rules, prompt) ==
    IF "recommended_alternatives" \in DOMAIN rules
    THEN ApplyAlternatives(rules["recommended_alternatives"], 1, prompt, <<>>)
    ELSE [optimized |-> prompt, changes |-> <<>>]

\* The keyword step falling back on the allowlist when the key is missing.
KeywordsStepWithDefault(rules, aggressive, alt) ==
    IF aggressive
    THEN RemoveKeywords(IF "high_cost_keywords" \in DOMAIN rules
                        THEN rules["high_cost_keywords"] ELSE SafeKeywords,
                        1, alt.optimized, alt.changes)
    ELSE alt

\* if aggressive and 'high_cost_keywords' in self.learned_rules: ..., on the
\* text and the tags alt of the alternatives step
KeywordsStep(rules, aggressive, alt) ==
    IF aggressive /\ "high_cost_keywords" \in DOMAIN rules
    THEN RemoveKeywords(rules["high_cost_keywords"], 1, alt.optimized, alt.changes)
    ELSE alt

\* apply_learned_rules with the verbose_modifiers list removed from the text
\* as well, each with its tag.
ApplyLearnedRulesWithModifiers(rules, prompt, aggressive) ==
    LET r == KeywordsStep(rules, aggressive, AlternativesStep(rules, prompt))
    IN  IF "verbose_modifiers" \in DOMAIN rules
        THEN RemoveKeywordsUnfiltered(rules["verbose_modifiers"], 1, r.optimized, r.changes)
        ELSE r

apply_learned_rules(rules, prompt, aggressive) ==
    KeywordsStep(rules, aggressive, AlternativesStep(rules, prompt))

(***************************************************************************)
(* estimate_improvement, assess_quality_impact                             *)
(***************************************************************************)
\* A lookup that credits a tag outside base_rules with the smallest weight.
ImpactOfAnyChange(rules, change) ==
    IF \E g \in 1..Len(rules) : rules[g].name = change
    THEN LET g == CHOOSE g \in 1..Len(rules) : rules[g].name = change IN rules[g].impact
    ELSE 5

\* self.base_rules.get(change, {}).get('impact', 0) ... if change in self.base_rules
ImpactOf(rules, change) ==
    IF \E g \in 1..Len(rules) : rules[g].name = change
    THEN LET g == CHOOSE g \in 1..Len(rules) : rules[g].name = change IN rules[g].impact
    ELSE 0

RECURSIVE RuleImpact(_, _, _)
RuleImpact(rules, changes, k) ==
    IF k > Len(changes) THEN 0
    ELSE ImpactOf(rules, changes[k]) + RuleImpact(rules, changes, k + 1)

\* The estimates are the fractions latency.num / latency.den and
\* energy.num / energy.den.  A zero-length original makes the first division
\* raise ZeroDivisionError.
estimate_improvement(rules, original, optimized, changes) ==
    IF Len(original) = 0 THEN [raised |-> "ZeroDivisionError"]
    ELSE LET den   == 100 * Len(original)
             base  == LengthWeight * (Len(original) - Len(optimized))
             total == Min(base + RuleImpact(rules, changes, 1) * Len(original),
                          LatencyCap * Len(original))
         IN  [raised  |-> "none",
              latency |-> [num |-> total, den |-> den],
              energy  |-> [num |-> total * EnergyShare, den |-> den * 100]]

\* The classification with both thresholds inclusive.
AssessQualityInclusive(original, optimized) ==
    IF Len(original) = 0 THEN "ZeroDivisionError"
    ELSE LET change == Abs(Len(original) - Len(optimized))
         IN  IF 10 * change <= Len(original) THEN "maintained"
             ELSE IF 4 * change <= Len(original) THEN "likely_maintained"
             ELSE "may_be_reduced"

\* change_magnitude < 0.1 and change_magnitude < 0.25, over the integers.
assess_quality_impact(original, optimized) ==
    IF Len(original) = 0 THEN "ZeroDivisionError"
    ELSE LET change == Abs(Len(original) - Len(optimized))
         IN  IF 10 * change < Len(original) THEN "maintained"
             ELSE IF 4 * change < Len(original) THEN "likely_maintained"
             ELSE "may_be_reduced"

(***************************************************************************)
(* optimize                                                                *)
(***************************************************************************)
\* The text and the change list before the whitespace clean-up.
\* optimized, learned_changes = ...; changes.extend(learned_changes)
ExtendChanges(base, l) == [optimized |-> l.optimized, changes |-> base.changes \o l.changes]

\* if self.learned_rules: ..., on the result base of the base groups
LearnedStep(learned, aggressive, base) ==
    IF DOMAIN learned # {}
    THEN ExtendChanges(base, apply_learned_rules(learned, base.optimized, aggressive))
    ELSE base

\* The learned rules applied to the raw prompt, the base groups after them.
RewrittenLearnedFirst(rules, learned, prompt, aggressive) ==
    LET l == IF DOMAIN learned # {}
             THEN apply_learned_rules(learned, prompt, aggressive)
             ELSE [optimized |-> prompt, changes |-> <<>>]
    IN  ApplyBaseRules(rules, 1, l.optimized, l.changes)

Rewritten(rules, learned, prompt, aggressive) ==
    LearnedStep(learned, aggressive, ApplyBaseRules(rules, 1, prompt, <<>>))

\* details = {...}; return optimized, details (or the exception that
\* estimate_improvement raised)
Details(prompt, text, changes, improvement) ==
    IF improvement.raised # "none"
    THEN [raised |-> improvement.raised, optimized |-> <<>>, details |-> <<>>]
    ELSE [raised    |-> "none",
          optimized |-> text,
          details   |->
              [original_length             |-> Len(prompt),
               optimized_length            |-> Len(text),
               length_reduction            |-> Len(prompt) - Len(text),
               changes_applied             |-> changes,
               estimated_latency_reduction |-> improvement.latency,
               estimated_energy_reduction  |-> improvement.energy,
               quality_impact              |-> assess_quality_impact(prompt, text)]]

\* improvement = self.estimate_improvement(prompt, optimized, changes)
Estimated(rules, prompt, text, changes) ==
    Details(prompt, text, changes, estimate_improvement(rules, prompt, text, changes))

\* optimized = re.sub(r'\s+', ' ', optimized).strip(), on the result r of the
\* rule steps
Cleaned(rules, prompt, r) == Estimated(rules, prompt, CleanWhitespace(r.optimized), r.changes)

optimize(rules, learned, prompt, aggressive) ==
    Cleaned(rules, prompt, Rewritten(rules, learned, prompt, aggressive))

(***************************************************************************)
(* batch_optimize                                                          *)
(***************************************************************************)
\* {'original': prompt, 'optimized': optimized, **details}
BatchRecord(original, r) == [original |-> original, optimized |-> r.optimized] @@ r.details

\* for prompt in prompts: optimized, details = self.optimize(prompt, aggressive)
\* An exception of optimize leaves the loop and the method; the records built
\* so far are lost.
RECURSIVE BatchFrom(_, _, _, _, _, _)
RECURSIVE BatchAppend(_, _, _, _, _, _, _)
BatchFrom(rules, learned, prompts, aggressive, i, results) ==
    IF i > Len(prompts) THEN [raised |-> "none", records |-> results]
    ELSE BatchAppend(rules, learned, prompts, aggressive, i, results,
                     optimize(rules, learned, prompts[i], aggressive))

\* results.append({...}) with the result r of optimize, then the next prompt.
BatchAppend(rules, learned, prompts, aggressive, i, results, r) ==
    IF r.raised # "none" THEN [raised |-> r.raised, records |-> <<>>]
    ELSE BatchFrom(rules, learned, prompts, aggressive, i + 1,
                   Append(results, BatchRecord(prompts[i], r)))

batch_optimize(rules, learned, prompts, aggressive) ==
    BatchFrom(rules, learned, prompts, aggressive, 1, <<>>)

(***************************************************************************)
(* generate_report                                                         *)
(***************************************************************************)
\* optimizations[:5]
SampleCount == 5

\* opt['original'][:100] and opt['optimized'][:100]
SampleWidth == 100

Ellipsis == <<".", ".", ".">>

Separator == <<",", " ">>

RECURSIVE GcdOf(_, _)
GcdOf(a, b) == IF b = 0 THEN a ELSE GcdOf(b, a % b)

\* A fraction in lowest terms (the denominator is positive).
Lowest(f) ==
    LET g == GcdOf(Abs(f.num), f.den)
    IN  [num |-> f.num \div g, den |-> f.den \div g]

AddFractions(a, b) ==
    LET g == GcdOf(a.den, b.den)
    IN  Lowest([num |-> a.num * (b.den \div g) + b.num * (a.den \div g),
                den |-> (a.den \div g) * b.den])

RECURSIVE SumFractions(_, _)
SumFractions(fs, k) ==
    IF k > Len(fs) THEN [num |-> 0, den |-> 1]
    ELSE AddFractions(Lowest(fs[k]), SumFractions(fs, k + 1))

\* np.mean: the mean of an empty list is nan, and numpy emits a RuntimeWarning.
Mean(fs) ==
    IF Len(fs) = 0 THEN [nan |-> TRUE, num |-> 0, den |-> 1]
    ELSE LET sum == SumFractions(fs, 1)
         IN  [nan |-> FALSE] @@ Lowest([num |-> sum.num, den |-> sum.den * Len(fs)])

\* f"{value * scale:.1f}": the number printed, in tenths.  The value is rounded
\* to the nearest tenth; when it lies exactly between two tenths (tie) the
\* binary float decides between tenths and tenths + 1.
Displayed(value, scale) ==
    IF value.nan THEN [nan |-> TRUE, tenths |-> 0, tie |-> FALSE]
    ELSE LET q     == Lowest([num |-> value.num * scale * 10, den |-> value.den])
             floor == q.num \div q.den
             rest  == q.num - floor * q.den
         IN  [nan    |-> FALSE,
              tenths |-> IF 2 * rest > q.den THEN floor + 1 ELSE floor,
              tie    |-> 2 * rest = q.den]

Number(fraction) == [nan |-> FALSE] @@ fraction

\* text[:100] followed by "..."
Sample(text) == SubSeq(text, 1, Min(Len(text), SampleWidth)) \o Ellipsis

\* ', '.join(tags)
RECURSIVE Join(_, _)
Join(tags, k) ==
    IF k > Len(tags) THEN <<>>
    ELSE IF k = Len(tags) THEN tags[k]
    ELSE tags[k] \o Separator \o Join(tags, k + 1)

\* One entry of the SAMPLE OPTIMIZATIONS block.
SampleEntry(i, opt) ==
    [index     |-> i,
     original  |-> Sample(opt.original),
     optimized |-> Sample(opt.optimized),
     changes   |-> Join(opt.changes_applied, 1),
     latency   |-> Displayed(Number(opt.estimated_latency_reduction), 100)]

\* The content of the report text: the numbers of its header lines and its
\* sample entries, and the warnings numpy wrote to stderr on the way.
generate_report(optimizations) ==
    LET n == Len(optimizations)
        avg_latency ==
            Mean([i \in 1..n |-> optimizations[i].estimated_latency_reduction])
        avg_energy ==
            Mean([i \in 1..n |-> optimizations[i].estimated_energy_reduction])
        avg_length_reduction ==
            Mean([i \in 1..n |-> [num |-> optimizations[i].length_reduction, den |-> 1]])
    IN  [raised                   |-> "none",
         warnings                 |-> IF n = 0 THEN <<"RuntimeWarning">> ELSE <<>>,
         total_prompts            |-> n,
         average_latency          |-> Displayed(avg_latency, 100),
         average_energy           |-> Displayed(avg_energy, 100),
         average_length_reduction |-> Displayed(avg_length_reduction, 1),
         samples                  |->
             [i \in 1..Min(n, SampleCount) |-> SampleEntry(i, optimizations[i])]]

(***************************************************************************)
(* __init__ and load_rules                                                 *)
(***************************************************************************)
\* The empty dict {}.
EmptyDict == <<>>

\* The try block of load_rules: open and json.load raise on an unreadable or
\* malformed file, and rules.get raises when the document is no JSON object.
LoadAttempt(file) ==
    IF file.state = "unreadable" THEN [raised |-> "OSError", rules |-> EmptyDict]
    ELSE IF file.state = "malformed" THEN [raised |-> "JSONDecodeError", rules |-> EmptyDict]
    ELSE IF file.json.type # "object" THEN [raised |-> "AttributeError", rules |-> EmptyDict]
    ELSE [raised |-> "none", rules |-> file.json.members]

\* load_rules without the except clause.
LoadRulesUncaught(file) ==
    IF file.state = "missing" THEN [raised |-> "none", rules |-> EmptyDict]
    ELSE LoadAttempt(file)

\* load_rules: a missing file gives {}; "except Exception" turns every failure
\* of the try block into {}.
load_rules(file) ==
    IF file.state = "missing" THEN [raised |-> "none", rules |-> EmptyDict]
    ELSE LET attempt == LoadAttempt(file)
         IN  IF attempt.raised # "none"
             THEN [raised |-> "none", rules |-> EmptyDict]
             ELSE attempt

\* self.learned_rules = self.load_rules() if self.rules_path else {}
\* (rules_path is None for the arguments None and "").
InitLearnedRules(arg, file) ==
    IF arg = "path" THEN load_rules(file) ELSE [raised |-> "none", rules |-> EmptyDict]

(***************************************************************************)
(* Inputs                                                                  *)
(***************************************************************************)
\* The longest prompt is a concatenation of MaxChunks chunks.
MaxChunks == 3

Chunks == {
    <<"P", "l", "e", "a", "s", "e", " ">>,
    <<"I", " ", "n", "e", "e", "d", " ", "y", "o", "u", " ", "t", "o", " ", "a", "n", "a", "l",
      "y", "z", "e">>,
    <<"T", "h", "o", "r", "o", "u", "g", "h", "l", "y">>,
    <<"w", "r", "i", "t", "e">>,
    <<"E", "x", "p", "l", "a", "i", "n", " ", "I", "n", " ", "D", "e", "t", "a", "i", "l">>,
    <<" ", "\t">> }

RECURSIVE Flatten(_)
Flatten(chunks) == IF chunks = <<>> THEN <<>> ELSE Head(chunks) \o Flatten(Tail(chunks))

\* "Please make sure to I need you to analyze thoroughly": all four groups fire.
AllGroupsPrompt ==
    <<"P", "l", "e", "a", "s", "e", " ", "m", "a", "k", "e", " ", "s", "u", "r", "e", " ", "t",
      "o", " ", "I", " ", "n", "e", "e", "d", " ", "y", "o", "u", " ", "t", "o", " ", "a", "n",
      "a", "l", "y", "z", "e", " ", "t", "h", "o", "r", "o", "u", "g", "h", "l", "y">>

\* "Could you please provide a detailed explanation of photosynthesis thoroughly?":
\* two patterns of remove_politeness fire, then simplify_instructions and
\* remove_verbose_modifiers.
ScenarioPrompt ==
    <<"C", "o", "u", "l", "d", " ", "y", "o", "u", " ", "p", "l", "e", "a", "s", "e", " ",
      "p", "r", "o", "v", "i", "d", "e", " ", "a", " ", "d", "e", "t", "a", "i", "l", "e",
      "d", " ", "e", "x", "p", "l", "a", "n", "a", "t", "i", "o", "n", " ", "o", "f", " ",
      "p", "h", "o", "t", "o", "s", "y", "n", "t", "h", "e", "s", "i", "s", " ", "t", "h",
      "o", "r", "o", "u", "g", "h", "l", "y", "?">>

\* "could be sure to you x": removing "be sure to " brings "could you" together
\* after remove_politeness has run.
JoinedPrompt ==
    <<"c", "o", "u", "l", "d", " ", "b", "e", " ", "s", "u", "r", "e", " ", "t", "o", " ",
      "y", "o", "u", " ", "x">>

\* "Can you please write": the phrase of the last remove_politeness pattern.
CanYouPleasePrompt ==
    <<"C", "a", "n", " ", "y", "o", "u", " ", "p", "l", "e", "a", "s", "e", " ", "w", "r",
      "i", "t", "e">>

Prompts ==
    {Flatten(cs) : cs \in UNION {[1..n -> Chunks] : n \in 0..MaxChunks}}
    \cup {AllGroupsPrompt, ScenarioPrompt, JoinedPrompt, CanYouPleasePrompt}

Absent == [present |-> FALSE, value |-> <<>>]

Present(v) == [present |-> TRUE, value |-> v]

\* A JSON object with the given optional keys.
Object(hck, ra, vm) ==
    (IF hck.present THEN "high_cost_keywords" :> hck.value ELSE EmptyDict) @@
    (IF ra.present THEN "recommended_alternatives" :> ra.value ELSE EmptyDict) @@
    (IF vm.present THEN "verbose_modifiers" :> vm.value ELSE EmptyDict)

HighCostKeywordLists == {
    Absent,
    Present(<< <<"w", "r", "i", "t", "e">> >>),
    Present(<< <<"w", "r", "i", "t", "e">>,
               <<"e", "x", "t", "e", "n", "s", "i", "v", "e", "l", "y">>,
               <<"t", "h", "o", "r", "o", "u", "g", "h", "l", "y">> >>) }

\* recommended_alternatives as the ordered (phrase, replacement) items of the dict.
AlternativeMaps == {
    Absent,
    Present(<< << <<"e", "x", "p", "l", "a", "i", "n", " ", "i", "n", " ", "d", "e", "t", "a",
                    "i", "l">>,
                  <<"e", "x", "p", "l", "a", "i", "n">> >>,
               << <<"w", "r", "i", "t", "e">>,
                  <<"w", "r", "i", "t", "e", " ", "d", "o", "w", "n">> >> >>),
    Present(<< << <<"E", "x", "p", "l", "a", "i", "n", " ", "I", "n", " ", "D", "e", "t", "a",
                    "i", "l">>,
                  <<"e", "x", "p", "l", "a", "i", "n">> >> >>),
    Present(<< << <<"e", "x", "p", "l", "a", "i", "n", " ", "i", "n", " ", "d", "e", "t", "a",
                    "i", "l">>,
                  <<GroupReference, GroupReference>> >> >>) }

VerboseModifiers == Present(<< <<"v", "e", "r", "y">> >>)

\* A top-level key that the program does not know.
UnknownKey == "model_version" :> <<"1">>

\* The longest keyword list and the longest alternatives mapping.
AllKeywords == CHOOSE hck \in HighCostKeywordLists : hck.present /\ Len(hck.value) = 3

BothAlternatives == CHOOSE ra \in AlternativeMaps : ra.present /\ Len(ra.value) = 2

RuleObjects ==
    {Object(hck, ra, Absent) : hck \in HighCostKeywordLists, ra \in AlternativeMaps}
    \cup {Object(Absent, Absent, VerboseModifiers),
          Object(AllKeywords, BothAlternatives, VerboseModifiers),
          Object(AllKeywords, BothAlternatives, Absent) @@ UnknownKey,
          Object(Absent, Absent, Absent) @@ UnknownKey}

NoJson == [type |-> "none", members |-> EmptyDict]

\* What the file system holds at the rules path.
RuleFiles ==
    {[state |-> st, json |-> NoJson] : st \in {"missing", "unreadable", "malformed"}}
    \cup {[state |-> "parsed", json |-> [type |-> "array", members |-> EmptyDict]]}
    \cup {[state |-> "parsed", json |-> [type |-> "object", members |-> o]] : o \in RuleObjects}

NoResult == [raised |-> "none", optimized |-> <<>>, details |-> <<>>]

(***************************************************************************)
(* The program: one optimizer instance and one call of optimize            *)
(***************************************************************************)
VARIABLES
    pc,             \* "new", "failed" (__init__ raised), "ready", "returned", "raised"
    rules_arg,      \* the rules_path argument: "None", "empty" ("") or "path"
    rules_file,     \* the file at that path
    learned_rules,  \* self.learned_rules
    self_base_rules,\* self.base_rules (<<>> until __init__ assigns it)
    prompt,         \* the prompt argument of the call
    aggressive,     \* the aggressive argument of the call
    result,         \* what optimize returned or raised
    calls,          \* the finished calls of a session on the instance, oldest first
    threads,        \* the frames of the optimize calls that run concurrently
    cli             \* one run of main: its arguments, its files and its position

vars ==
    <<pc, rules_arg, rules_file, learned_rules, self_base_rules, prompt, aggressive, result,
      calls, threads, cli>>

\* No session and no concurrent call.
NoCalls == <<>>

NoThreads == <<>>

\* main is not running.
NoRun == [at |-> "none"]

Init ==
    /\ pc = "new"
    /\ \/ rules_arg \in {"None", "empty"} /\ rules_file = [state |-> "missing", json |-> NoJson]
       \/ rules_arg = "path" /\ rules_file \in RuleFiles
    /\ learned_rules = EmptyDict
    /\ self_base_rules = <<>>
    /\ prompt \in Prompts
    /\ aggressive \in BOOLEAN
    /\ result = NoResult
    /\ calls = NoCalls
    /\ threads = NoThreads
    /\ cli = NoRun

\* AdvancedPromptOptimizer(rules_path)
Construct ==
    /\ pc = "new"
    /\ LET loaded == InitLearnedRules(rules_arg, rules_file)
       IN  /\ learned_rules' = loaded.rules
           /\ self_base_rules' = IF loaded.raised = "none" THEN base_rules ELSE self_base_rules
           /\ pc' = IF loaded.raised = "none" THEN "ready" ELSE "failed"
    /\ UNCHANGED <<rules_arg, rules_file, prompt, aggressive, result, calls, threads, cli>>

\* optimizer.optimize(prompt, aggressive)
Optimize ==
    /\ pc = "ready"
    /\ result' = optimize(self_base_rules, learned_rules, prompt, aggressive)
    /\ pc' = IF result'.raised = "none" THEN "returned" ELSE "raised"
    /\ UNCHANGED <<rules_arg, rules_file, learned_rules, self_base_rules, prompt, aggressive,
                   calls, threads, cli>>

Next == Construct \/ Optimize

Spec == Init /\ [][Next]_vars

(***************************************************************************)
(* assess_quality_impact called on its own                                 *)
(***************************************************************************)
\* The longest original text handed to assess_quality_impact.
MaxLength == 100

\* A text of n characters.
Text(n) == [i \in 1..n |-> "x"]

\* An instance built without a rules path, no call made yet.
Built ==
    /\ pc = "ready"
    /\ rules_arg = "None"
    /\ rules_file = [state |-> "missing", json |-> NoJson]
    /\ learned_rules = InitLearnedRules(rules_arg, rules_file).rules
    /\ self_base_rules = base_rules
    /\ prompt = <<>>
    /\ aggressive = FALSE
    /\ result = NoResult
    /\ calls = NoCalls
    /\ threads = NoThreads
    /\ cli = NoRun

QualityInit == Built

\* optimizer.assess_quality_impact(original, optimized)
AssessQuality ==
    /\ pc = "ready"
    /\ calls = NoCalls
    /\ \E n \in 0..MaxLength, m \in 0..(2 * MaxLength) :
           calls' = <<[op        |-> "assess_quality_impact",
                      original  |-> Text(n),
                      optimized |-> Text(m),
                      outcome   |-> assess_quality_impact(Text(n), Text(m))]>>
    /\ UNCHANGED <<pc, rules_arg, rules_file, learned_rules, self_base_rules, prompt,
                   aggressive, result, threads, cli>>

QualityNext == AssessQuality

QualitySpec == QualityInit /\ [][QualityNext]_vars

(***************************************************************************)
(* A session: calls of optimize, batch_optimize and generate_report, one   *)
(* after another on one instance                                           *)
(***************************************************************************)
\* The number of calls of a session.
MaxCalls == 3

\* The longest list handed to batch_optimize in a session.
MaxBatch == 2

PleaseThoroughly == <<"P", "l", "e", "a", "s", "e", " ", "T", "h", "o", "r", "o", "u", "g", "h", "l", "y">>

SessionPrompts == {<<>>, <<"w", "r", "i", "t", "e">>, PleaseThoroughly}

Batches == UNION {[1..n -> SessionPrompts] : n \in 0..MaxBatch}

\* The rules files of a session: none, or one with both learned keys.
SessionRuleFiles ==
    {f \in RuleFiles :
        \/ f.state = "missing"
        \/ /\ f.json.type = "object"
           /\ DOMAIN f.json.members = {"high_cost_keywords", "recommended_alternatives"}
           /\ Len(f.json.members["high_cost_keywords"]) = 3
           /\ Len(f.json.members["recommended_alternatives"]) = 2}

SessionInit ==
    /\ pc = "new"
    /\ rules_arg = "path"
    /\ rules_file \in SessionRuleFiles
    /\ learned_rules = EmptyDict
    /\ self_base_rules = <<>>
    /\ prompt = <<>>
    /\ aggressive = FALSE
    /\ result = NoResult
    /\ calls = NoCalls
    /\ threads = NoThreads
    /\ cli = NoRun

\* A call of optimize that drops the first group of self.base_rules.
CallOptimizeDroppingGroup ==
    /\ pc = "ready"
    /\ Len(calls) < MaxCalls
    /\ \E p \in SessionPrompts, a \in BOOLEAN :
           calls' = Append(calls,
                       [op         |-> "optimize",
                        prompt     |-> p,
                        aggressive |-> a,
                        outcome    |-> optimize(self_base_rules, learned_rules, p, a)])
    /\ self_base_rules' = Tail(self_base_rules)
    /\ UNCHANGED <<pc, rules_arg, rules_file, learned_rules, prompt, aggressive, result,
                   threads, cli>>

\* optimizer.optimize(p, a): the method assigns no attribute of the instance.
CallOptimize ==
    /\ pc = "ready"
    /\ Len(calls) < MaxCalls
    /\ \E p \in SessionPrompts, a \in BOOLEAN :
           calls' = Append(calls,
                       [op         |-> "optimize",
                        prompt     |-> p,
                        aggressive |-> a,
                        outcome    |-> optimize(self_base_rules, learned_rules, p, a)])
    /\ UNCHANGED <<pc, rules_arg, rules_file, learned_rules, self_base_rules, prompt,
                   aggressive, result, threads, cli>>

\* A call of batch_optimize that empties self.learned_rules.
CallBatchOptimizeConsumingRules ==
    /\ pc = "ready"
    /\ Len(calls) < MaxCalls
    /\ \E ps \in Batches, a \in BOOLEAN :
           calls' = Append(calls,
                       [op         |-> "batch_optimize",
                        prompts    |-> ps,
                        aggressive |-> a,
                        outcome    |-> batch_optimize(self_base_rules, learned_rules, ps, a)])
    /\ learned_rules' = EmptyDict
    /\ UNCHANGED <<pc, rules_arg, rules_file, self_base_rules, prompt, aggressive, result,
                   threads, cli>>

\* optimizer.batch_optimize(ps, a)
CallBatchOptimize ==
    /\ pc = "ready"
    /\ Len(calls) < MaxCalls
    /\ \E ps \in Batches, a \in BOOLEAN :
           calls' = Append(calls,
                       [op         |-> "batch_optimize",
                        prompts    |-> ps,
                        aggressive |-> a,
                        outcome    |-> batch_optimize(self_base_rules, learned_rules, ps, a)])
    /\ UNCHANGED <<pc, rules_arg, rules_file, learned_rules, self_base_rules, prompt,
                   aggressive, result, threads, cli>>

\* optimizer.generate_report(results), on the records an earlier
\* batch_optimize returned
CallGenerateReport ==
    /\ pc = "ready"
    /\ Len(calls) < MaxCalls
    /\ \E c \in 1..Len(calls) :
           /\ calls[c].op = "batch_optimize"
           /\ calls[c].outcome.raised = "none"
           /\ calls' = Append(calls,
                          [op            |-> "generate_report",
                           optimizations |-> calls[c].outcome.records,
                           outcome       |-> generate_report(calls[c].outcome.records)])
    /\ UNCHANGED <<pc, rules_arg, rules_file, learned_rules, self_base_rules, prompt,
                   aggressive, result, threads, cli>>

SessionNext == Construct \/ CallOptimize \/ CallBatchOptimize \/ CallGenerateReport

SessionSpec == SessionInit /\ [][SessionNext]_vars

(***************************************************************************)
(* Concurrent calls of optimize on one shared instance.  A frame holds the *)
(* locals of one call; every step reads the instance and writes only its   *)
(* own frame.                                                              *)
(***************************************************************************)
\* The number of calls that run at the same time.
NumThreads == 2

Threads == 1..NumThreads

ThreadPrompts == {<<>>, <<"w", "r", "i", "t", "e">>, PleaseThoroughly}

\* The locals of a call that has not started.
IdleFrame(p, a) ==
    [at              |-> "idle",
     prompt          |-> p,
     aggressive      |-> a,
     optimized       |-> <<>>,
     changes         |-> <<>>,
     before          |-> <<>>,
     g               |-> 1,
     k               |-> 1,
     inner_optimized |-> <<>>,
     inner_changes   |-> <<>>,
     result          |-> NoResult]

ConcurrentInit ==
    /\ pc = "ready"
    /\ rules_arg = "path"
    /\ rules_file \in SessionRuleFiles
    /\ learned_rules = InitLearnedRules(rules_arg, rules_file).rules
    /\ self_base_rules = base_rules
    /\ prompt = <<>>
    /\ aggressive = FALSE
    /\ result = NoResult
    /\ calls = NoCalls
    /\ threads \in {[t \in Threads |-> IdleFrame(p[t], a[t])] :
                       p \in [Threads -> ThreadPrompts], a \in [Threads -> BOOLEAN]}
    /\ cli = NoRun

Shared == <<pc, rules_arg, rules_file, learned_rules, self_base_rules, prompt, aggressive,
            result, calls, cli>>

InCall(t) == threads[t].at \notin {"idle", "done"}

\* optimized = prompt; changes = []
Call(t) ==
    /\ threads[t].at = "idle"
    /\ threads' = [threads EXCEPT ![t].at = "group",
                                  ![t].optimized = threads[t].prompt,
                                  ![t].changes = <<>>,
                                  ![t].g = 1]
    /\ UNCHANGED Shared

\* for rule_name, rule_data in self.base_rules.items(): before = optimized
NextGroup(t) ==
    /\ threads[t].at = "group"
    /\ threads' = IF threads[t].g > Len(self_base_rules)
                  THEN [threads EXCEPT ![t].at = "learned"]
                  ELSE [threads EXCEPT ![t].at = "pattern",
                                       ![t].before = threads[t].optimized,
                                       ![t].k = 1]
    /\ UNCHANGED Shared

\* A pattern step that takes the text from the frame of another running call.
ApplyPatternOnSharedText(t) ==
    /\ threads[t].at = "pattern"
    /\ LET patterns == self_base_rules[threads[t].g].patterns
           k        == threads[t].k
           others   == {u \in Threads : u # t /\ InCall(u)}
           text     == IF others = {} THEN threads[t].optimized
                       ELSE threads[CHOOSE u \in others : TRUE].optimized
       IN  threads' = IF k > Len(patterns)
                      THEN [threads EXCEPT ![t].at = "record"]
                      ELSE [threads EXCEPT
                                ![t].optimized = ReSub(patterns[k][1], patterns[k][2], text, TRUE),
                                ![t].k = k + 1]
    /\ UNCHANGED Shared

\* for pattern, replacement in rule_data['patterns']: optimized = re.sub(...)
ApplyPattern(t) ==
    /\ threads[t].at = "pattern"
    /\ LET patterns == self_base_rules[threads[t].g].patterns
           k        == threads[t].k
       IN  threads' = IF k > Len(patterns)
                      THEN [threads EXCEPT ![t].at = "record"]
                      ELSE [threads EXCEPT
                                ![t].optimized = ReSub(patterns[k][1], patterns[k][2],
                                                       threads[t].optimized, TRUE),
                                ![t].k = k + 1]
    /\ UNCHANGED Shared

\* if optimized != before: changes.append(rule_name)
RecordGroup(t) ==
    /\ threads[t].at = "record"
    /\ threads' = [threads EXCEPT
                      ![t].changes = IF threads[t].optimized # threads[t].before
                                     THEN Append(@, self_base_rules[threads[t].g].name)
                                     ELSE @,
                      ![t].g = @ + 1,
                      ![t].at = "group"]
    /\ UNCHANGED Shared

\* if self.learned_rules: self.apply_learned_rules(optimized, aggressive)
EnterLearned(t) ==
    /\ threads[t].at = "learned"
    /\ threads' = IF DOMAIN learned_rules # {}
                  THEN [threads EXCEPT ![t].at = "alternative",
                                       ![t].inner_optimized = threads[t].optimized,
                                       ![t].inner_changes = <<>>,
                                       ![t].k = 1]
                  ELSE [threads EXCEPT ![t].at = "clean"]
    /\ UNCHANGED Shared

\* One pass of the loop over recommended_alternatives.items(), or the end of it.
ApplyAlternative(t) ==
    /\ threads[t].at = "alternative"
    /\ LET k    == threads[t].k
           more == /\ "recommended_alternatives" \in DOMAIN learned_rules
                   /\ k <= Len(learned_rules["recommended_alternatives"])
       IN  threads' =
               IF more
               THEN LET step == ApplyAlternatives(
                                    SubSeq(learned_rules["recommended_alternatives"], k, k), 1,
                                    threads[t].inner_optimized, threads[t].inner_changes)
                    IN  [threads EXCEPT ![t].inner_optimized = step.optimized,
                                        ![t].inner_changes = step.changes,
                                        ![t].k = k + 1]
               ELSE [threads EXCEPT ![t].at = "keyword", ![t].k = 1]
    /\ UNCHANGED Shared

\* One pass of the loop over high_cost_keywords, or the end of it.
RemoveKeyword(t) ==
    /\ threads[t].at = "keyword"
    /\ LET k    == threads[t].k
           more == /\ threads[t].aggressive
                   /\ "high_cost_keywords" \in DOMAIN learned_rules
                   /\ k <= Len(learned_rules["high_cost_keywords"])
       IN  threads' =
               IF more
               THEN LET step == RemoveKeywords(
                                    SubSeq(learned_rules["high_cost_keywords"], k, k), 1,
                                    threads[t].inner_optimized, threads[t].inner_changes)
                    IN  [threads EXCEPT ![t].inner_optimized = step.optimized,
                                        ![t].inner_changes = step.changes,
                                        ![t].k = k + 1]
               ELSE [threads EXCEPT ![t].at = "merge"]
    /\ UNCHANGED Shared

\* optimized, learned_changes = ...; changes.extend(learned_changes)
ReturnLearned(t) ==
    /\ threads[t].at = "merge"
    /\ threads' = [threads EXCEPT ![t].optimized = threads[t].inner_optimized,
                                  ![t].changes = @ \o threads[t].inner_changes,
                                  ![t].at = "clean"]
    /\ UNCHANGED Shared

\* optimized = re.sub(r'\s+', ' ', optimized).strip()
CleanUp(t) ==
    /\ threads[t].at = "clean"
    /\ threads' = [threads EXCEPT ![t].optimized = CleanWhitespace(@), ![t].at = "estimate"]
    /\ UNCHANGED Shared

\* improvement = self.estimate_improvement(...); details = {...}; return
Finish(t) ==
    /\ threads[t].at = "estimate"
    /\ LET f           == threads[t]
           improvement == estimate_improvement(self_base_rules, f.prompt, f.optimized, f.changes)
           outcome     ==
               IF improvement.raised # "none"
               THEN [raised |-> improvement.raised, optimized |-> <<>>, details |-> <<>>]
               ELSE [raised    |-> "none",
                     optimized |-> f.optimized,
                     details   |->
                         [original_length             |-> Len(f.prompt),
                          optimized_length            |-> Len(f.optimized),
                          length_reduction            |-> Len(f.prompt) - Len(f.optimized),
                          changes_applied             |-> f.changes,
                          estimated_latency_reduction |-> improvement.latency,
                          estimated_energy_reduction  |-> improvement.energy,
                          quality_impact              |->
                              assess_quality_impact(f.prompt, f.optimized)]]
       IN  threads' = [threads EXCEPT ![t].result = outcome, ![t].at = "done"]
    /\ UNCHANGED Shared

ConcurrentNext ==
    \E t \in Threads :
        \/ Call(t)
        \/ NextGroup(t)
        \/ ApplyPattern(t)
        \/ RecordGroup(t)
        \/ EnterLearned(t)
        \/ ApplyAlternative(t)
        \/ RemoveKeyword(t)
        \/ ReturnLearned(t)
        \/ CleanUp(t)
        \/ Finish(t)

ConcurrentSpec == ConcurrentInit /\ [][ConcurrentNext]_vars

(***************************************************************************)
(* generate_report called on its own                                       *)
(***************************************************************************)
\* The longest list of records handed to generate_report.
MaxRecords == 6

PleaseWrite == <<"P", "l", "e", "a", "s", "e", " ", "w", "r", "i", "t", "e">>

\* "Please writewrite...writeabc": 120 characters, 113 after optimization.
LongPrompt ==
    <<"P", "l", "e", "a", "s", "e", " ", "w", "r", "i", "t", "e", "w", "r", "i", "t", "e",
      "w", "r", "i", "t", "e", "w", "r", "i", "t", "e", "w", "r", "i", "t", "e", "w", "r",
      "i", "t", "e", "w", "r", "i", "t", "e", "w", "r", "i", "t", "e", "w", "r", "i", "t",
      "e", "w", "r", "i", "t", "e", "w", "r", "i", "t", "e", "w", "r", "i", "t", "e", "w",
      "r", "i", "t", "e", "w", "r", "i", "t", "e", "w", "r", "i", "t", "e", "w", "r", "i",
      "t", "e", "w", "r", "i", "t", "e", "w", "r", "i", "t", "e", "w", "r", "i", "t", "e",
      "w", "r", "i", "t", "e", "w", "r", "i", "t", "e", "w", "r", "i", "t", "e", "a", "b",
      "c">>

ReportPrompts == {<<"w", "r", "i", "t", "e">>, PleaseWrite, LongPrompt}

\* The records batch_optimize returns for these prompts without learned rules.
ReportRecords ==
    {batch_optimize(base_rules, EmptyDict, <<p>>, FALSE).records[1] : p \in ReportPrompts}

ReportLists == UNION {[1..n -> ReportRecords] : n \in 0..MaxRecords}

ReportInit == Built

\* optimizer.generate_report(optimizations)
GenerateReport ==
    /\ pc = "ready"
    /\ calls = NoCalls
    /\ \E optimizations \in ReportLists :
           calls' = <<[op            |-> "generate_report",
                      optimizations |-> optimizations,
                      outcome       |-> generate_report(optimizations)]>>
    /\ UNCHANGED <<pc, rules_arg, rules_file, learned_rules, self_base_rules, prompt,
                   aggressive, result, threads, cli>>

ReportNext == GenerateReport

ReportSpec == ReportInit /\ [][ReportNext]_vars

(***************************************************************************)
(* main: one run of the command line                                       *)
(***************************************************************************)
\* The longest prompts file has MaxLines lines.
MaxLines == 3

\* The lines of a prompts file as the iteration over the file yields them,
\* line terminator included: an empty line, a line of whitespace, a prompt
\* and a prompt between whitespace.
Lines == {
    <<"\n">>,
    <<" ", "\t", "\n">>,
    <<"w", "r", "i", "t", "e", "\n">>,
    <<" ", "P", "l", "e", "a", "s", "e", " ", "w", "r", "i", "t", "e", " ", "\n">> }

\* What the file system holds at the path of --file.
PromptFiles ==
    {[state |-> "missing", lines |-> <<>>]}
    \cup {[state |-> "readable", lines |-> ls] :
              ls \in UNION {[1..n -> Lines] : n \in 0..MaxLines}}

\* The non-empty values of --prompt: " ", "write" and "Please write".
MainPrompts == {<<" ">>, <<"w", "r", "i", "t", "e">>, PleaseWrite}

\* An option that takes a value is absent (None), the empty string or a value.
Options == {"None", "empty", "value"}

\* bool(arg) of a string option: None and "" are false.
Truthy(option) == option = "value"

\* The list comprehension with the lines passed as they are read.
ReadPromptsUnstripped(lines) == SelectSeq(lines, LAMBDA line : Strip(line) # <<>>)

\* The list comprehension without its filter.
ReadPromptsKeepingBlank(lines) == [i \in 1..Len(lines) |-> Strip(lines[i])]

\* prompts = [line.strip() for line in f if line.strip()]
ReadPrompts(lines) ==
    SelectSeq([i \in 1..Len(lines) |-> Strip(lines[i])], LAMBDA line : line # <<>>)

\* The branches tested in the order file, prompt.
ModeFileFirst(c, p) ==
    IF Truthy(c.file) THEN "file"
    ELSE IF Truthy(c.prompt) /\ p # <<>> THEN "prompt"
    ELSE "usage"

\* if args.prompt: ... elif args.file: ... else: ...
Mode(c, p) ==
    IF Truthy(c.prompt) /\ p # <<>> THEN "prompt"
    ELSE IF Truthy(c.file) THEN "file"
    ELSE "usage"

NoFile == [state |-> "absent", content |-> <<>>]

\* main starts: the parsed arguments (the value of --prompt is the variable
\* prompt, --aggressive the variable aggressive, --rules the variable
\* rules_arg) and the files they name.  stdout holds what main itself prints.
MainInit ==
    /\ pc = "new"
    /\ \/ rules_arg = "None" /\ rules_file = [state |-> "missing", json |-> NoJson]
       \/ rules_arg = "path" /\ rules_file \in SessionRuleFiles /\ rules_file.state # "missing"
    /\ learned_rules = EmptyDict
    /\ self_base_rules = <<>>
    /\ prompt \in MainPrompts \cup {<<>>}
    /\ aggressive \in BOOLEAN
    /\ result = NoResult
    /\ calls = NoCalls
    /\ threads = NoThreads
    /\ \E given \in Options, file \in Options, output \in Options,
          prompts_file \in PromptFiles, output_dir \in {"writable", "unwritable"} :
           /\ Truthy(given) <=> prompt # <<>>
           /\ ~Truthy(file) => prompts_file.state = "missing"
           /\ ~Truthy(output) => output_dir = "writable"
           /\ cli = [at           |-> "start",
                     prompt       |-> given,
                     file         |-> file,
                     output       |-> output,
                     prompts_file |-> prompts_file,
                     output_dir   |-> output_dir,
                     output_file  |-> NoFile,
                     prompts      |-> <<>>,
                     results      |-> <<>>,
                     stdout       |-> <<>>,
                     raised       |-> "none"]

Raise(c, exception) == [c EXCEPT !.at = "raised", !.raised = exception]

\* optimizer = AdvancedPromptOptimizer(rules_path=args.rules)
MainConstruct ==
    /\ cli.at = "start"
    /\ learned_rules' = InitLearnedRules(rules_arg, rules_file).rules
    /\ self_base_rules' = base_rules
    /\ pc' = "ready"
    /\ cli' = [cli EXCEPT !.at = "dispatch"]
    /\ UNCHANGED <<rules_arg, rules_file, prompt, aggressive, result, calls, threads>>

\* The three prints of the single-prompt branch, or the exception of optimize.
AfterOptimize(c, r) ==
    IF r.raised # "none" THEN Raise(c, r.raised)
    ELSE [c EXCEPT !.at = "done", !.stdout = @ \o <<"Original", "Optimized", "Details">>]

\* optimize returned r to the single-prompt branch.
SinglePromptWith(r) ==
    /\ result' = r
    /\ calls' = Append(calls, [op         |-> "optimize",
                               prompt     |-> prompt,
                               aggressive |-> aggressive,
                               outcome    |-> r])
    /\ cli' = AfterOptimize(cli, r)

\* if args.prompt: optimized, details = optimizer.optimize(...); print(...)
SinglePrompt ==
    /\ cli.at = "dispatch"
    /\ Mode(cli, prompt) = "prompt"
    /\ SinglePromptWith(optimize(self_base_rules, learned_rules, prompt, aggressive))
    /\ UNCHANGED <<pc, rules_arg, rules_file, learned_rules, self_base_rules, prompt,
                   aggressive, threads>>

\* elif args.file: with open(args.file) as f: prompts = [...]
ReadFile ==
    /\ cli.at = "dispatch"
    /\ Mode(cli, prompt) = "file"
    /\ cli' = IF cli.prompts_file.state = "missing"
              THEN Raise(cli, "FileNotFoundError")
              ELSE [cli EXCEPT !.at = "batch", !.prompts = ReadPrompts(cli.prompts_file.lines)]
    /\ UNCHANGED <<pc, rules_arg, rules_file, learned_rules, self_base_rules, prompt,
                   aggressive, result, calls, threads>>

\* batch_optimize returned b to the file branch.
BatchOptimizeWith(b) ==
    /\ calls' = Append(calls, [op         |-> "batch_optimize",
                               prompts    |-> cli.prompts,
                               aggressive |-> aggressive,
                               outcome    |-> b])
    /\ cli' = IF b.raised # "none" THEN Raise(cli, b.raised)
              ELSE [cli EXCEPT !.at = "report", !.results = b.records]

\* results = optimizer.batch_optimize(prompts, args.aggressive)
BatchOptimize ==
    /\ cli.at = "batch"
    /\ BatchOptimizeWith(batch_optimize(self_base_rules, learned_rules, cli.prompts, aggressive))
    /\ UNCHANGED <<pc, rules_arg, rules_file, learned_rules, self_base_rules, prompt,
                   aggressive, result, threads>>

\* generate_report returned report to the file branch.
ReportWith(report) ==
    /\ calls' = Append(calls, [op            |-> "generate_report",
                               optimizations |-> cli.results,
                               outcome       |-> report])
    /\ cli' = IF report.raised # "none" THEN Raise(cli, report.raised)
              ELSE [cli EXCEPT !.at = "output", !.stdout = @ \o <<"report">>]

\* report = optimizer.generate_report(results); print(report)
Report ==
    /\ cli.at = "report"
    /\ ReportWith(generate_report(cli.results))
    /\ UNCHANGED <<pc, rules_arg, rules_file, learned_rules, self_base_rules, prompt,
                   aggressive, result, threads>>

\* The effect of the last statement of the file branch on the run c.
WriteOutputOf(c) ==
    IF ~Truthy(c.output) THEN [c EXCEPT !.at = "done"]
    ELSE IF c.output_dir = "unwritable" THEN Raise(c, "OSError")
    ELSE [c EXCEPT !.at = "done",
                   !.output_file = [state |-> "written", content |-> c.results],
                   !.stdout = @ \o <<"saved">>]

\* if args.output: with open(args.output, 'w') as f: json.dump(results, f, indent=2)
WriteOutput ==
    /\ cli.at = "output"
    /\ cli' = WriteOutputOf(cli)
    /\ UNCHANGED <<pc, rules_arg, rules_file, learned_rules, self_base_rules, prompt,
                   aggressive, result, calls, threads>>

\* The usage branch writing the output file that --output names.
UsageWritingOutput ==
    /\ cli.at = "dispatch"
    /\ Mode(cli, prompt) = "usage"
    /\ cli' = [WriteOutputOf(cli) EXCEPT !.stdout = cli.stdout \o <<"usage">>]
    /\ UNCHANGED <<pc, rules_arg, rules_file, learned_rules, self_base_rules, prompt,
                   aggressive, result, calls, threads>>

\* else: print("Please provide --prompt or --file")
Usage ==
    /\ cli.at = "dispatch"
    /\ Mode(cli, prompt) = "usage"
    /\ cli' = [cli EXCEPT !.at = "done", !.stdout = @ \o <<"usage">>]
    /\ UNCHANGED <<pc, rules_arg, rules_file, learned_rules, self_base_rules, prompt,
                   aggressive, result, calls, threads>>

MainNext ==
    \/ MainConstruct
    \/ SinglePrompt
    \/ ReadFile
    \/ BatchOptimize
    \/ Report
    \/ WriteOutput
    \/ Usage

MainSpec == MainInit /\ [][MainNext]_vars

(***************************************************************************)
(* Properties                                                              *)
(***************************************************************************)
Returned == pc = "returned"

Finished == pc \in {"returned", "raised"}

\* C1: for every prompt, every learned-rules mapping and both values of
\* aggressive, the returned estimated_latency_reduction lies in [0, 0.50].
C1_LatencyWithinRange ==
    Returned =>
        LET latency == result.details.estimated_latency_reduction
        IN  /\ 0 <= latency.num
            /\ 100 * latency.num <= LatencyCap * latency.den

\* C2: optimize("") does not raise and returns the empty text with
\* length_reduction 0, estimated_latency_reduction 0 and quality "maintained".
C2_EmptyPromptReturnsZeros ==
    (Finished /\ prompt = <<>>) =>
        /\ result.raised = "none"
        /\ result.optimized = <<>>
        /\ result.details.length_reduction = 0
        /\ result.details.estimated_latency_reduction.num = 0
        /\ result.details.quality_impact = "maintained"

\* C3: the returned text has no leading or trailing whitespace and no two
\* consecutive whitespace characters; optimized_length is the length of that
\* text, original_length the length of the raw prompt and length_reduction
\* their difference.
C3_NormalisedText ==
    Returned =>
        LET text == result.optimized
            d    == result.details
        IN  /\ text # <<>> => ~IsSpace(text[1]) /\ ~IsSpace(text[Len(text)])
            /\ \A i \in 1..(Len(text) - 1) : ~(IsSpace(text[i]) /\ IsSpace(text[i + 1]))
            /\ d.optimized_length = Len(text)
            /\ d.original_length = Len(prompt)
            /\ d.length_reduction = Len(prompt) - Len(text)

\* C3 witness: a prompt that starts with a run of two whitespace characters
\* and ends with one came back as a text that still holds a space.
C3_Witness ==
    /\ Returned
    /\ Len(prompt) > 3
    /\ IsSpace(prompt[1]) /\ IsSpace(prompt[2]) /\ IsSpace(prompt[Len(prompt)])
    /\ \E i \in 1..Len(result.optimized) : result.optimized[i] = " "
    /\ result.details.original_length > result.details.optimized_length

(***************************************************************************)
(* Stages of the call in the current state, and text predicates            *)
(***************************************************************************)
\* The text and the changes after the four base groups.
AfterBase == ApplyBaseRules(base_rules, 1, prompt, <<>>)

\* The text entering the keyword-removal step.
AfterAlternatives == AlternativesStep(learned_rules, AfterBase.optimized)

Alternatives ==
    IF "recommended_alternatives" \in DOMAIN learned_rules
    THEN learned_rules["recommended_alternatives"]
    ELSE <<>>

HighCostKeywords ==
    IF "high_cost_keywords" \in DOMAIN learned_rules
    THEN learned_rules["high_cost_keywords"]
    ELSE <<>>

\* The text after the first a recommended alternatives.
AlternativeStage(a) ==
    ApplyAlternatives(SubSeq(Alternatives, 1, a), 1, AfterBase.optimized, <<>>).optimized

\* The text after the first g base groups.
GroupStage(g) == ApplyBaseRules(SubSeq(base_rules, 1, g), 1, prompt, <<>>).optimized

\* word occurs in text as a whole word, letter case ignored.
WholeWordOccurs(word, text) ==
    \E i \in 1..(Len(text) - Len(word) + 1) :
        /\ \A k \in 1..Len(word) : LowerChar(text[i + k - 1]) = LowerChar(word[k])
        /\ i = 1 \/ ~IsWordChar(text[i - 1])
        /\ i + Len(word) > Len(text) \/ ~IsWordChar(text[i + Len(word)])

\* phrase occurs in text, letter case ignored.
OccursIgnoringCase(phrase, text) == Contains(Lower(text), Lower(phrase))

\* The words of a text: its maximal runs of word characters, in order.
WordStarts(text) ==
    {i \in 1..Len(text) : IsWordChar(text[i]) /\ (i = 1 \/ ~IsWordChar(text[i - 1]))}

WordEnd(text, i) ==
    CHOOSE j \in i..Len(text) :
        /\ \A q \in i..j : IsWordChar(text[q])
        /\ j = Len(text) \/ ~IsWordChar(text[j + 1])

WordList(text) ==
    LET starts == WordStarts(text)
    IN  [k \in 1..Cardinality(starts) |->
            LET i == CHOOSE i \in starts : Cardinality({q \in starts : q < i}) = k - 1
            IN  SubSeq(text, i, WordEnd(text, i))]

IsSafeWord(word) == Lower(word) \in Range(SafeKeywords)

\* The words of a text that are not on the allowlist.
OtherWords(text) == SelectSeq(WordList(text), LAMBDA w : ~IsSafeWord(w))

Thoroughly == SafeKeywords[1]

Write == <<"w", "r", "i", "t", "e">>

Changes == result.details.changes_applied

BaseNames == {base_rules[g].name : g \in 1..Len(base_rules)}

\* C4: every entry of changes_applied names a rule that matched and altered
\* the text in this call: a base group, a replaced_<phrase> tag or a
\* removed_<keyword> tag.
C4_ChangesNameFiredRules ==
    Returned =>
        \A c \in 1..Len(Changes) :
            \/ \E g \in 1..Len(base_rules) :
                   /\ Changes[c] = base_rules[g].name
                   /\ GroupStage(g) # GroupStage(g - 1)
            \/ \E a \in 1..Len(Alternatives) :
                   /\ Changes[c] = Replaced \o ReplaceSpaces(Alternatives[a][1])
                   /\ AlternativeStage(a) # AlternativeStage(a - 1)
            \/ \E k \in 1..Len(HighCostKeywords) :
                   /\ aggressive
                   /\ Changes[c] = Removed \o HighCostKeywords[k]
                   /\ WholeWordOccurs(HighCostKeywords[k], AfterAlternatives.optimized)

\* re.search: the pattern matches somewhere in the text.
Matches(pat, text) == \E p \in 1..Len(text) : MatchFrom(pat, text, TRUE, 1, p) > 0

\* No pattern of a base group, no learned phrase and, in aggressive mode, no
\* listed allowlisted keyword matches the text.
NoRuleMatches(text) ==
    /\ \A g \in 1..Len(base_rules) : \A k \in 1..Len(base_rules[g].patterns) :
           ~Matches(base_rules[g].patterns[k][1], text)
    /\ \A a \in 1..Len(Alternatives) : ~OccursIgnoringCase(Alternatives[a][1], text)
    /\ aggressive =>
           \A k \in 1..Len(HighCostKeywords) :
               IsSafeWord(HighCostKeywords[k]) => ~WholeWordOccurs(HighCostKeywords[k], text)

\* C5: optimize applied again (same instance, same flag) to a returned text
\* that matches no remaining rule pattern returns that text and an empty
\* changes_applied list.
C5_RerunChangesNothing ==
    (Returned /\ NoRuleMatches(result.optimized)) =>
        LET again == optimize(base_rules, learned_rules, result.optimized, aggressive)
        IN  /\ again.raised = "none"
            /\ again.optimized = result.optimized
            /\ again.details.changes_applied = <<>>

\* C6 (as claimed): in aggressive mode with a non-empty high_cost_keywords
\* list every whole-word occurrence of each of the three allowlisted words is
\* removed and tagged, whatever the list contains.
C6_EverySafeWordRemoved ==
    (Returned /\ aggressive /\ HighCostKeywords # <<>>) =>
        \A w \in Range(SafeKeywords) :
            /\ ~WholeWordOccurs(w, result.optimized)
            /\ WholeWordOccurs(w, AfterAlternatives.optimized) => Removed \o w \in Range(Changes)

\* C6 (amended): in aggressive mode every whole-word occurrence of each
\* allowlisted word that is listed in high_cost_keywords is removed, and its
\* removed_<word> tag is recorded.
C6_ListedSafeWordsRemoved ==
    (Returned /\ aggressive /\ HighCostKeywords # <<>>) =>
        \A w \in Range(SafeKeywords) \cap Range(HighCostKeywords) :
            /\ ~WholeWordOccurs(w, result.optimized)
            /\ Removed \o w \in Range(Changes)

\* C6 witness: a listed "thoroughly" reached the keyword step as a whole word
\* and is gone from the returned text.
C6_Witness ==
    /\ Returned /\ aggressive
    /\ Thoroughly \in Range(HighCostKeywords)
    /\ WholeWordOccurs(Thoroughly, AfterAlternatives.optimized)
    /\ ~WholeWordOccurs(Thoroughly, result.optimized)

\* C7: the keyword-removal step removes no word outside the allowlist, and
\* removes nothing at all when aggressive is false: the returned text has the
\* non-allowlisted words of the text that entered the step, and all of its
\* words when aggressive is false.
C7_OnlySafeWordsRemoved ==
    Returned =>
        /\ OtherWords(result.optimized) = OtherWords(AfterAlternatives.optimized)
        /\ ~aggressive => WordList(result.optimized) = WordList(AfterAlternatives.optimized)

\* C7 witness: aggressive mode, "write" and "thoroughly" both listed and both
\* in the text entering the step; "write" is still there afterwards.
C7_Witness ==
    /\ Returned /\ aggressive
    /\ Write \in Range(HighCostKeywords) /\ Thoroughly \in Range(HighCostKeywords)
    /\ WholeWordOccurs(Write, AfterAlternatives.optimized)
    /\ WholeWordOccurs(Thoroughly, AfterAlternatives.optimized)
    /\ WholeWordOccurs(Write, result.optimized)
    /\ ~WholeWordOccurs(Thoroughly, result.optimized)

\* C8: for each recommended alternative, whatever the letter case of its
\* phrase key, a phrase that occurs case-insensitively in the current text is
\* replaced everywhere and its replaced_<phrase> tag is recorded.
C8_AlternativesAnyCase ==
    Returned =>
        \A a \in 1..Len(Alternatives) :
            LET phrase == Alternatives[a][1]
                before == AlternativeStage(a - 1)
            IN  OccursIgnoringCase(phrase, before) =>
                    /\ AlternativeStage(a) = ReSub(phrase, Alternatives[a][2], before, TRUE)
                    /\ Replaced \o ReplaceSpaces(phrase) \in Range(Changes)

BadRulesSource ==
    rules_arg # "path" \/ rules_file.state \in {"missing", "unreadable", "malformed"}

\* C9: construction never raises; without a path, or with a missing,
\* unreadable or malformed file, learned_rules is empty and optimize gives
\* what an optimizer built without rules gives; learned_rules is non-empty
\* only as the content of a file that parsed.
C9_RulesLoadDegrades ==
    /\ pc # "failed"
    /\ pc # "new" =>
           /\ BadRulesSource => DOMAIN learned_rules = {}
           /\ DOMAIN learned_rules # {} =>
                  /\ rules_arg = "path" /\ rules_file.state = "parsed"
                  /\ learned_rules = rules_file.json.members
    /\ (Finished /\ BadRulesSource) =>
           result = optimize(base_rules, InitLearnedRules("None", rules_file).rules,
                             prompt, aggressive)

\* C9 witness: an optimizer built on a malformed rules file returned a
\* rewritten prompt.
C9_Witness ==
    /\ Returned
    /\ rules_arg = "path" /\ rules_file.state = "malformed"
    /\ Changes # <<>>

\* C10: for a non-empty prompt the latency estimate is exactly
\* min(0.20 * (len(original) - len(optimized)) / len(original) + rule_impact, 0.50)
\* with rule_impact the sum of the weights 0.05, 0.10, 0.15, 0.05 of the base
\* groups named in changes_applied; learned tags add nothing.
C10_LatencyFormula ==
    (Returned /\ prompt # <<>>) =>
        LET original  == Len(prompt)
            optimized == Len(result.optimized)
            weight    == (IF base_rules[1].name \in Range(Changes) THEN 5 ELSE 0)
                         + (IF base_rules[2].name \in Range(Changes) THEN 10 ELSE 0)
                         + (IF base_rules[3].name \in Range(Changes) THEN 15 ELSE 0)
                         + (IF base_rules[4].name \in Range(Changes) THEN 5 ELSE 0)
            expected  == Min(20 * (original - optimized) + weight * original, 50 * original)
            latency   == result.details.estimated_latency_reduction
        IN  latency.num * 100 * original = expected * latency.den

\* C10 witness: changes_applied names a base group and a learned tag.
C10_Witness ==
    /\ Returned
    /\ \E c \in 1..Len(Changes) : Changes[c] \in BaseNames
    /\ \E c \in 1..Len(Changes) : Changes[c] \notin BaseNames

SameFraction(a, b) == Lowest(a) = Lowest(b)

\* C11: for every result of optimize, estimated_energy_reduction is exactly
\* 0.85 times estimated_latency_reduction, and lies in [0, 0.425].
C11_EnergyIsShareOfLatency ==
    Returned =>
        LET latency == result.details.estimated_latency_reduction
            energy  == result.details.estimated_energy_reduction
        IN  /\ SameFraction(energy, [num |-> 85 * latency.num, den |-> 100 * latency.den])
            /\ 0 <= energy.num
            /\ 1000 * energy.num <= 425 * energy.den

\* The tags apply_learned_rules added in this call.
LearnedTags ==
    IF DOMAIN learned_rules # {}
    THEN apply_learned_rules(learned_rules, AfterBase.optimized, aggressive).changes
    ELSE <<>>

Occurrences(name) == Cardinality({c \in 1..Len(Changes) : Changes[c] = name})

\* C12: each base group name appears at most once in changes_applied, so its
\* weight is counted at most once, and no tag of a learned rule is a base
\* group name.
C12_BaseNamesAtMostOnce ==
    Returned =>
        /\ \A g \in 1..Len(base_rules) : Occurrences(base_rules[g].name) <= 1
        /\ Changes = AfterBase.changes \o LearnedTags
        /\ \A t \in 1..Len(LearnedTags) : LearnedTags[t] \notin BaseNames
        /\ \A g \in 1..Len(base_rules) :
               RuleImpact(SubSeq(base_rules, g, g), Changes, 1) \in {0, base_rules[g].impact}

\* C12 witness: two patterns of remove_politeness changed the text, the name
\* is listed once, and learned tags came after the base names.
C12_Witness ==
    /\ Returned
    /\ prompt = ScenarioPrompt
    /\ Occurrences(base_rules[1].name) = 1
    /\ LearnedTags # <<>>

\* The calls of assess_quality_impact made so far.
QualityCalls == {c \in 1..Len(calls) : calls[c].op = "assess_quality_impact"}

\* Whether a call classified a change from n to m characters as verdict.
Classified(c, n, m, verdict) ==
    (Len(calls[c].original) = n /\ Len(calls[c].optimized) = m) => calls[c].outcome = verdict

\* C13: for a non-empty original the quality impact depends on
\* magnitude = |len(original) - len(optimized)| / len(original) only:
\* "maintained" below 0.10, "likely_maintained" from 0.10 to below 0.25,
\* "may_be_reduced" from 0.25 on, growth and shrinkage alike; 100 -> 91 is
\* maintained, 100 -> 89 and 100 -> 90 likely_maintained, 100 -> 74 and
\* 100 -> 75 may_be_reduced.
C13_QualityThresholds ==
    \A c \in QualityCalls :
        LET n         == Len(calls[c].original)
            m         == Len(calls[c].optimized)
            magnitude == [num |-> IF n >= m THEN n - m ELSE m - n, den |-> n]
        IN  n > 0 =>
                /\ 100 * magnitude.num < 10 * magnitude.den => calls[c].outcome = "maintained"
                /\ (/\ 100 * magnitude.num >= 10 * magnitude.den
                    /\ 100 * magnitude.num < 25 * magnitude.den)
                       => calls[c].outcome = "likely_maintained"
                /\ 100 * magnitude.num >= 25 * magnitude.den
                       => calls[c].outcome = "may_be_reduced"
                /\ Classified(c, 100, 91, "maintained")
                /\ Classified(c, 100, 89, "likely_maintained")
                /\ Classified(c, 100, 74, "may_be_reduced")
                /\ Classified(c, 100, 90, "likely_maintained")
                /\ Classified(c, 100, 75, "may_be_reduced")
                /\ Classified(c, 100, 110, "likely_maintained")

\* C13 witness: a text of 100 characters shrunk to exactly 90 was classified.
C13_Witness ==
    \E c \in QualityCalls :
        /\ Len(calls[c].original) = 100
        /\ Len(calls[c].optimized) = 90
        /\ calls[c].outcome = "likely_maintained"

\* The four group names in the order of the claim.
ClaimedOrder ==
    << <<"r", "e", "m", "o", "v", "e", "_", "p", "o", "l", "i", "t", "e", "n", "e", "s", "s">>,
       <<"s", "i", "m", "p", "l", "i", "f", "y", "_", "i", "n", "s", "t", "r", "u", "c", "t", "i", "o", "n", "s">>,
       <<"r", "e", "m", "o", "v", "e", "_", "v", "e", "r", "b", "o", "s", "e", "_", "m", "o", "d", "i", "f", "i", "e", "r", "s">>,
       <<"r", "e", "m", "o", "v", "e", "_", "r", "e", "d", "u", "n", "d", "a", "n", "t", "_", "i", "n", "s", "t", "r", "u", "c", "t", "i", "o", "n", "s">> >>

GroupNamed(name) == CHOOSE g \in 1..Len(base_rules) : base_rules[g].name = name

\* The text after the first k substitutions of a pattern list, each applied
\* to the output of the one before.
RECURSIVE AfterPatterns(_, _, _)
AfterPatterns(patterns, k, text) ==
    IF k = 0 THEN text
    ELSE ReSub(patterns[k][1], patterns[k][2], AfterPatterns(patterns, k - 1, text), TRUE)

\* The text after the first n groups of the claimed order.
RECURSIVE AfterGroups(_, _)
AfterGroups(n, text) ==
    IF n = 0 THEN text
    ELSE LET patterns == base_rules[GroupNamed(ClaimedOrder[n])].patterns
         IN  AfterPatterns(patterns, Len(patterns), AfterGroups(n - 1, text))

\* The names of the first n groups of the claimed order that changed their input.
RECURSIVE ChangedGroups(_, _)
ChangedGroups(n, text) ==
    IF n = 0 THEN <<>>
    ELSE IF AfterGroups(n, text) # AfterGroups(n - 1, text)
         THEN Append(ChangedGroups(n - 1, text), ClaimedOrder[n])
         ELSE ChangedGroups(n - 1, text)

\* C14: the four base groups run in the order remove_politeness,
\* simplify_instructions, remove_verbose_modifiers,
\* remove_redundant_instructions, each group and each pattern on the output of
\* the one before, and a group is named in changes_applied exactly when the
\* text after it differs from the text before it.
C14_GroupsInFixedOrder ==
    Returned =>
        /\ Len(base_rules) = Len(ClaimedOrder)
        /\ \A n \in 1..Len(ClaimedOrder) : base_rules[n].name = ClaimedOrder[n]
        /\ SubSeq(Changes, 1, Len(Changes) - Len(LearnedTags)) = ChangedGroups(4, prompt)
        /\ DOMAIN learned_rules = {} =>
               result.optimized = CleanWhitespace(AfterGroups(4, prompt))

\* C14 witness: remove_politeness removed the whitespace that
\* remove_verbose_modifiers needs in front of "thoroughly", so the word stayed
\* and only remove_politeness is recorded.
C14_Witness ==
    /\ Returned
    /\ DOMAIN learned_rules = {}
    /\ AfterGroups(1, prompt) # prompt
    /\ Matches(base_rules[3].patterns[2][1], prompt)
    /\ WholeWordOccurs(Thoroughly, result.optimized)
    /\ Changes = <<ClaimedOrder[1]>>

CouldYou == <<"c", "o", "u", "l", "d", " ", "y", "o", "u">>

Please == <<"p", "l", "e", "a", "s", "e">>

ProvideADetailedExplanationOf ==
    <<"p", "r", "o", "v", "i", "d", "e", " ", "a", " ", "d", "e", "t", "a", "i", "l", "e", "d", " ", "e", "x", "p", "l", "a", "n", "a", "t", "i", "o", "n", " ", "o", "f">>

Explain == <<"e", "x", "p", "l", "a", "i", "n">>

ExplainPhotosynthesis ==
    <<"e", "x", "p", "l", "a", "i", "n", " ", "p", "h", "o", "t", "o", "s", "y", "n", "t", "h", "e", "s", "i", "s", "?">>

\* C17: without learned rules, optimize turns "Could you please provide a
\* detailed explanation of photosynthesis thoroughly?" into a text without
\* "could you", "please" and "thoroughly", with "explain" in place of "provide
\* a detailed explanation of", whitespace-collapsed and shorter than the
\* prompt, and changes_applied names remove_politeness, simplify_instructions
\* and remove_verbose_modifiers.
C17_PhotosynthesisScenario ==
    (Finished /\ prompt = ScenarioPrompt /\ DOMAIN learned_rules = {}) =>
        /\ result.raised = "none"
        /\ ~OccursIgnoringCase(CouldYou, result.optimized)
        /\ ~OccursIgnoringCase(Please, result.optimized)
        /\ ~OccursIgnoringCase(ProvideADetailedExplanationOf, result.optimized)
        /\ Contains(result.optimized, Explain)
        /\ ~OccursIgnoringCase(Thoroughly, result.optimized)
        /\ result.optimized = ExplainPhotosynthesis
        /\ result.optimized = CleanWhitespace(result.optimized)
        /\ Len(result.optimized) < Len(prompt)
        /\ {ClaimedOrder[1], ClaimedOrder[2], ClaimedOrder[3]} \subseteq Range(Changes)

\* C17 witness: the scenario prompt was optimized by an instance without
\* learned rules and came back rewritten.
C17_Witness ==
    /\ Returned
    /\ prompt = ScenarioPrompt
    /\ DOMAIN learned_rules = {}
    /\ OccursIgnoringCase(CouldYou, prompt)
    /\ result.optimized # prompt

OptimizeCalls == {c \in 1..Len(calls) : calls[c].op = "optimize"}

BatchCalls == {c \in 1..Len(calls) : calls[c].op = "batch_optimize"}

ReportCalls == {c \in 1..Len(calls) : calls[c].op = "generate_report"}

\* C15: two calls of optimize with the same prompt and the same aggressive
\* flag on one instance have the same outcome, the same text and the same
\* details, whatever calls of optimize or batch_optimize were made before or
\* between them.
C15_SameCallSameResult ==
    \A i \in OptimizeCalls, j \in OptimizeCalls :
        (calls[i].prompt = calls[j].prompt /\ calls[i].aggressive = calls[j].aggressive) =>
            /\ calls[i].outcome.raised = calls[j].outcome.raised
            /\ calls[i].outcome.optimized = calls[j].outcome.optimized
            /\ calls[i].outcome.details = calls[j].outcome.details

\* C15 witness: with learned rules loaded, optimize rewrote a prompt, then
\* batch_optimize ran, then optimize got the same prompt and flag again.
C15_Witness ==
    /\ Len(calls) = 3
    /\ DOMAIN learned_rules # {}
    /\ calls[1].op = "optimize" /\ calls[2].op = "batch_optimize" /\ calls[3].op = "optimize"
    /\ calls[2].prompts # <<>>
    /\ calls[1].prompt = calls[3].prompt /\ calls[1].aggressive = calls[3].aggressive
    /\ calls[1].outcome.raised = "none"
    /\ calls[1].outcome.optimized # calls[1].prompt
    /\ calls[1].outcome.details.changes_applied # <<>>

\* C16: batch_optimize returns one record per prompt, in input order; record
\* i has original = prompt i and otherwise the fields optimize(prompt i,
\* aggressive) returns on its own.
C16_BatchIsOptimizePerPrompt ==
    \A c \in BatchCalls :
        LET ps == calls[c].prompts
            rs == calls[c].outcome.records
        IN  /\ calls[c].outcome.raised = "none"
            /\ Len(rs) = Len(ps)
            /\ \A i \in 1..Len(ps) :
                   LET alone == optimize(base_rules, learned_rules, ps[i], calls[c].aggressive)
                   IN  /\ alone.raised = "none"
                       /\ rs[i].original = ps[i]
                       /\ rs[i].optimized = alone.optimized
                       /\ \A field \in DOMAIN alone.details :
                              rs[i][field] = alone.details[field]

\* C18: after construction, and after any sequence of optimize,
\* batch_optimize and generate_report calls, learned_rules and base_rules hold
\* the values construction gave them.
C18_RulesUnchanged ==
    pc = "ready" =>
        /\ learned_rules = InitLearnedRules(rules_arg, rules_file).rules
        /\ self_base_rules = base_rules

\* C18 witness: all three methods were called on an instance with learned
\* rules, and the learned rules were used.
C18_Witness ==
    /\ DOMAIN learned_rules # {}
    /\ OptimizeCalls # {} /\ BatchCalls # {} /\ ReportCalls # {}
    /\ \E c \in OptimizeCalls :
           /\ calls[c].outcome.raised = "none"
           /\ calls[c].outcome.details.changes_applied # <<>>

\* C19: a call of optimize that ran interleaved, step by step, with other
\* calls on the same instance returns the text and the details it returns
\* when run alone.
C19_ConcurrentCallsAsAlone ==
    \A t \in DOMAIN threads :
        threads[t].at = "done" =>
            threads[t].result =
                optimize(base_rules, InitLearnedRules(rules_arg, rules_file).rules,
                         threads[t].prompt, threads[t].aggressive)

\* C19 witness: a call that base and learned rules rewrote has returned while
\* another call, started before it returned, is still between its steps.
C19_Witness ==
    \E t \in DOMAIN threads, u \in DOMAIN threads :
        /\ t # u
        /\ threads[t].at = "done"
        /\ threads[t].result.raised = "none"
        /\ Len(threads[t].result.details.changes_applied) >= 2
        /\ threads[u].at \in {"pattern", "alternative", "keyword"}
        /\ threads[u].optimized # threads[t].prompt

\* shown is the value of sum / n * scale rounded to one decimal: it is a
\* number, and it is within 0.05 of that value.
ShowsMean(shown, sum, n, scale) ==
    /\ ~shown.nan
    /\ Abs(2 * shown.tenths * n * sum.den - 20 * scale * sum.num) <= n * sum.den

\* text is shown by its first SampleWidth characters at most.
ShowsPrefix(entry, text) ==
    /\ Len(entry) <= SampleWidth + Len(Ellipsis)
    /\ \E n \in 0..SampleWidth :
           /\ n = Len(text) \/ (n = SampleWidth /\ Len(text) > SampleWidth)
           /\ entry = SubSeq(text, 1, n) \o Ellipsis

\* C20: generate_report gives Total Prompts as the number of records, the
\* arithmetic means of estimated_latency_reduction, estimated_energy_reduction
\* and length_reduction over all records, then min(5, number of records)
\* sample entries in input order, each with at most the first 100 characters
\* of the original and of the optimized text and the changes_applied tags;
\* it performs no I/O.
C20_ReportSummarisesAllRecords ==
    \A c \in ReportCalls :
        LET rs     == calls[c].optimizations
            n      == Len(rs)
            report == calls[c].outcome
        IN  /\ report.raised = "none"
            /\ report.warnings = <<>>
            /\ report.total_prompts = n
            /\ ShowsMean(report.average_latency,
                         SumFractions([i \in 1..n |-> rs[i].estimated_latency_reduction], 1),
                         n, 100)
            /\ ShowsMean(report.average_energy,
                         SumFractions([i \in 1..n |-> rs[i].estimated_energy_reduction], 1),
                         n, 100)
            /\ ShowsMean(report.average_length_reduction,
                         SumFractions([i \in 1..n |-> [num |-> rs[i].length_reduction,
                                                       den |-> 1]], 1),
                         n, 1)
            /\ Len(report.samples) = Min(5, n)
            /\ \A i \in 1..Len(report.samples) :
                   /\ report.samples[i].index = i
                   /\ ShowsPrefix(report.samples[i].original, rs[i].original)
                   /\ ShowsPrefix(report.samples[i].optimized, rs[i].optimized)
                   /\ report.samples[i].changes = Join(rs[i].changes_applied, 1)

StartsWith(tag, prefix) ==
    Len(tag) >= Len(prefix) /\ SubSeq(tag, 1, Len(prefix)) = prefix

\* The positions in the claimed group order of the first b entries of changes.
GroupPositions(b) ==
    [c \in 1..b |-> CHOOSE n \in 1..Len(ClaimedOrder) : ClaimedOrder[n] = Changes[c]]

\* The text after the keyword-removal phase, computed phase by phase from the
\* text after the last recommended alternative.
AfterKeywords ==
    IF aggressive
    THEN RemoveKeywords(HighCostKeywords, 1, AlternativeStage(Len(Alternatives)), <<>>).optimized
    ELSE AlternativeStage(Len(Alternatives))

\* C24: the phases of one call run in the order base groups, recommended
\* alternatives, aggressive keyword removal, whitespace collapse, estimate:
\* changes_applied is base group names in group order, then replaced_ tags,
\* then removed_ tags, and the estimate and the quality class are computed
\* from the length of the final, whitespace-collapsed text.
C24_PhasesInOrder ==
    Returned =>
        /\ \E b \in 0..Len(Changes) : \E r \in b..Len(Changes) :
               /\ \A c \in 1..b : Changes[c] \in Range(ClaimedOrder)
               /\ \A c \in 1..(b - 1) : GroupPositions(b)[c] < GroupPositions(b)[c + 1]
               /\ \A c \in (b + 1)..r : StartsWith(Changes[c], Replaced)
               /\ \A c \in (r + 1)..Len(Changes) : StartsWith(Changes[c], Removed)
        /\ result.optimized = CleanWhitespace(AfterKeywords)
        /\ LET n       == Len(prompt)
               m       == Len(CleanWhitespace(AfterKeywords))
               weight  == RuleImpact(base_rules, Changes, 1)
               latency == result.details.estimated_latency_reduction
               change  == Abs(n - m)
           IN  /\ latency.num * 100 * n
                      = Min(LengthWeight * (n - m) + weight * n, LatencyCap * n) * latency.den
               /\ result.details.quality_impact =
                      IF 10 * change < n THEN "maintained"
                      ELSE IF 4 * change < n THEN "likely_maintained"
                      ELSE "may_be_reduced"

\* C24 witness: a base group, a recommended alternative and a keyword removal
\* were recorded in one call, and the whitespace collapse shortened the text
\* that left the keyword phase.
C24_Witness ==
    /\ Returned
    /\ Len(Changes) >= 3
    /\ Changes[1] \in BaseNames
    /\ \E c \in 1..Len(Changes) : StartsWith(Changes[c], Replaced)
    /\ StartsWith(Changes[Len(Changes)], Removed)
    /\ Len(AfterKeywords) > Len(result.optimized)

\* No pattern of a base group matches the text.
NoBaseRuleMatches(text) ==
    \A g \in 1..Len(base_rules) : \A k \in 1..Len(base_rules[g].patterns) :
        ~Matches(base_rules[g].patterns[k][1], text)

\* optimize applied to the returned text of the call, on the same instance.
Again == optimize(base_rules, learned_rules, result.optimized, aggressive)

\* C25 (as claimed): with no learned rules the returned text matches no base
\* rule pattern, and optimize applied to it returns the same text with an
\* empty changes_applied list, for every prompt.
C25_OptimizeIsIdempotent ==
    (Returned /\ DOMAIN learned_rules = {}) =>
        /\ NoBaseRuleMatches(result.optimized)
        /\ Again.raised = "none"
        /\ Again.optimized = result.optimized
        /\ Again.details.changes_applied = <<>>

\* C25 (amended): with no learned rules, optimize applied to a returned text
\* that matches no base rule pattern returns the same text with an empty
\* changes_applied list when that text is non-empty, and raises
\* ZeroDivisionError when it is empty; a returned text can still match a
\* base rule pattern.
C25_RerunOnSettledText ==
    (Returned /\ DOMAIN learned_rules = {} /\ NoBaseRuleMatches(result.optimized)) =>
        IF result.optimized = <<>>
        THEN Again.raised = "ZeroDivisionError"
        ELSE /\ Again.raised = "none"
             /\ Again.optimized = result.optimized
             /\ Again.details.changes_applied = <<>>

\* C25 witness: a call without learned rules changed the prompt and returned a
\* non-empty text that no base pattern matches.
C25_Witness ==
    /\ Returned
    /\ DOMAIN learned_rules = {}
    /\ Changes # <<>>
    /\ result.optimized # <<>>
    /\ NoBaseRuleMatches(result.optimized)
    /\ Again.optimized = result.optimized

\* The returned text of a call without learned rules still matches a pattern
\* of remove_politeness, and a second call removes the match.
LeftoverMatchReached ==
    /\ Returned
    /\ DOMAIN learned_rules = {}
    /\ prompt = JoinedPrompt
    /\ Matches(base_rules[1].patterns[2][1], result.optimized)
    /\ Again.details.changes_applied = <<ClaimedOrder[1]>>

\* The number of characters of a replacement as the rules file holds it.
RECURSIVE Width(_)
Width(repl) ==
    IF repl = <<>> THEN 0
    ELSE (IF Head(repl) = GroupReference THEN 5 ELSE 1) + Width(Tail(repl))

\* C26: with empty learned rules optimize never lengthens a prompt, so
\* length_reduction and the latency estimate are not negative; a negative
\* length_reduction arises only when a recommended alternative whose
\* replacement is longer than its phrase was applied.
C26_OnlyLongerAlternativesLengthen ==
    Returned =>
        /\ DOMAIN learned_rules = {} =>
               /\ result.details.optimized_length <= result.details.original_length
               /\ result.details.length_reduction >= 0
               /\ result.details.estimated_latency_reduction.num >= 0
        /\ result.details.length_reduction < 0 =>
               \E a \in 1..Len(Alternatives) :
                   /\ \E c \in 1..Len(Changes) :
                          Changes[c] = Replaced \o ReplaceSpaces(Alternatives[a][1])
                   /\ Width(Alternatives[a][2]) > Len(Alternatives[a][1])

CanYou == <<"c", "a", "n", " ", "y", "o", "u">>

\* The pattern of the last pair of remove_politeness, \bcan you please\s+.
CanYouPleasePattern == base_rules[1].patterns[5][1]

\* The number of places where phrase occurs in text, letter case ignored.
CountOf(phrase, text) ==
    Cardinality({i \in 1..(Len(text) - Len(phrase) + 1) :
                     SubSeq(Lower(text), i, i + Len(phrase) - 1) = Lower(phrase)})

\* C27: every pair of remove_politeness is effective; a prompt that holds
\* "can you please " followed by further text loses the whole phrase, so the
\* returned text holds fewer occurrences of "can you" than the prompt.
C27_CanYouPleaseRemoved ==
    (Returned /\ Matches(CanYouPleasePattern, prompt)) =>
        CountOf(CanYou, result.optimized) < CountOf(CanYou, prompt)

\* C28: when the learned rules have no high_cost_keywords key (the empty
\* mapping included), optimize(prompt, True) and optimize(prompt, False)
\* return the same text and the same details.
C28_AggressiveNeedsKeywords ==
    (Finished /\ "high_cost_keywords" \notin DOMAIN learned_rules) =>
        result = optimize(base_rules, learned_rules, prompt, ~aggressive)

\* C28 witness: an aggressive call with learned rules that lack the key
\* applied a learned rule and returned a text that still holds the whole
\* word "thoroughly".
C28_Witness ==
    /\ Returned
    /\ aggressive
    /\ DOMAIN learned_rules # {}
    /\ "high_cost_keywords" \notin DOMAIN learned_rules
    /\ LearnedTags # <<>>
    /\ WholeWordOccurs(Thoroughly, result.optimized)

\* The two keys that apply_learned_rules reads.
ReadKeys == {"high_cost_keywords", "recommended_alternatives"}

\* Two learned-rules mappings agree on the keys that are read.
Agree(a, b) ==
    /\ DOMAIN a \cap ReadKeys = DOMAIN b \cap ReadKeys
    /\ \A k \in DOMAIN a \cap ReadKeys : a[k] = b[k]

\* The learned rules of the other instances: every loadable object and the
\* empty mapping.
OtherLearnedRules == RuleObjects \cup {EmptyDict}

\* C29: the result of optimize depends on the learned rules only through
\* high_cost_keywords and recommended_alternatives: an instance whose learned
\* rules agree on these two keys returns the same text and the same details
\* for the same prompt and flag, whatever verbose_modifiers or unknown keys
\* either mapping holds.
C29_OnlyReadKeysMatter ==
    Finished =>
        \A other \in OtherLearnedRules :
            Agree(other, learned_rules) =>
                result = optimize(base_rules, other, prompt, aggressive)

\* C29 witness: the learned rules hold verbose_modifiers beside the two keys,
\* another mapping agrees on the two keys without being equal, and the call
\* replaced a recommended alternative.
C29_Witness ==
    /\ Returned
    /\ "verbose_modifiers" \in DOMAIN learned_rules
    /\ "recommended_alternatives" \in DOMAIN learned_rules
    /\ \E c \in 1..Len(Changes) : StartsWith(Changes[c], Replaced)
    /\ \E other \in OtherLearnedRules : other # learned_rules /\ Agree(other, learned_rules)

(***************************************************************************)
(* Properties of main                                                      *)
(***************************************************************************)
\* The operations main has called so far, oldest first.
Ops == [c \in 1..Len(calls) |-> calls[c].op]

IsPrefix(s, t) == Len(s) <= Len(t) /\ s = SubSeq(t, 1, Len(s))

\* A line that holds a character that is not whitespace.
NonBlank(line) == \E i \in 1..Len(line) : ~IsSpace(line[i])

\* The positions of the non-blank lines of the prompts file.
NonBlankLines == {i \in 1..Len(cli.prompts_file.lines) : NonBlank(cli.prompts_file.lines[i])}

\* The k-th non-blank line of the prompts file.
NonBlankLine(k) ==
    cli.prompts_file.lines[CHOOSE i \in NonBlankLines :
                               Cardinality({q \in NonBlankLines : q < i}) = k - 1]

\* C21: in file mode the lines that are empty or only whitespace are dropped
\* before batch_optimize, the other lines are passed stripped and in file
\* order, and the batch returns one record per non-blank line.
C21_BlankLinesDropped ==
    \A c \in 1..Len(calls) :
        calls[c].op = "batch_optimize" =>
            /\ Len(calls[c].prompts) = Cardinality(NonBlankLines)
            /\ \A k \in 1..Len(calls[c].prompts) :
                   /\ calls[c].prompts[k] = Strip(NonBlankLine(k))
                   /\ ~IsSpace(Head(calls[c].prompts[k]))
                   /\ ~IsSpace(calls[c].prompts[k][Len(calls[c].prompts[k])])
            /\ calls[c].outcome.raised = "none"
            /\ Len(calls[c].outcome.records) = Cardinality(NonBlankLines)
            /\ \A k \in 1..Len(calls[c].outcome.records) :
                   calls[c].outcome.records[k].original = calls[c].prompts[k]

\* C21 witness: a file of three lines with an empty line, then a prompt
\* between whitespace, then a prompt, went through batch_optimize.
C21_Witness ==
    /\ Len(calls) >= 1
    /\ calls[1].op = "batch_optimize"
    /\ Len(cli.prompts_file.lines) = 3
    /\ cli.prompts_file.lines[1] = <<"\n">>
    /\ IsSpace(cli.prompts_file.lines[2][1])
    /\ NonBlankLines = {2, 3}
    /\ Len(calls[1].outcome.records) = 2

\* C22: with neither a prompt nor a file main prints the usage message and
\* returns without calling optimize or batch_optimize and without writing an
\* output file, whatever --output, --rules and --aggressive are.
C22_UsageOnly ==
    (~Truthy(cli.prompt) /\ ~Truthy(cli.file)) =>
        /\ cli.at \in {"start", "dispatch", "done"}
        /\ cli.raised = "none"
        /\ calls = <<>>
        /\ cli.output_file = NoFile
        /\ cli.stdout = IF cli.at = "done" THEN <<"usage">> ELSE <<>>

\* C22 witness: main returned from the usage branch of a run with --output,
\* --rules and --aggressive.
C22_Witness ==
    /\ cli.at = "done"
    /\ ~Truthy(cli.prompt) /\ ~Truthy(cli.file)
    /\ Truthy(cli.output)
    /\ rules_arg = "path"
    /\ aggressive
    /\ cli.stdout = <<"usage">>

\* C23: one run is in exactly one mode, prompt before file before usage.  With
\* a prompt main calls optimize once and writes no file, whatever --file and
\* --output are; with only a file it calls batch_optimize, then
\* generate_report, and writes the batch results to the output path exactly
\* when an output path is given, after the report is printed.
C23_OneModePerRun ==
    /\ Truthy(cli.prompt) =>
           /\ IsPrefix(Ops, <<"optimize">>)
           /\ cli.output_file = NoFile
           /\ cli.at = "done" => Ops = <<"optimize">> /\ calls[1].prompt = prompt
    /\ (~Truthy(cli.prompt) /\ Truthy(cli.file)) =>
           /\ IsPrefix(Ops, <<"batch_optimize", "generate_report">>)
           /\ cli.output_file.state = "written" =>
                  /\ Truthy(cli.output)
                  /\ Ops = <<"batch_optimize", "generate_report">>
                  /\ cli.stdout = <<"report", "saved">>
                  /\ cli.output_file.content = calls[1].outcome.records
           /\ cli.at = "done" =>
                  /\ Ops = <<"batch_optimize", "generate_report">>
                  /\ cli.output_file.state = "written" <=> Truthy(cli.output)
    /\ (~Truthy(cli.prompt) /\ ~Truthy(cli.file)) =>
           /\ Ops = <<>>
           /\ cli.output_file = NoFile

\* C23 witness: a run with a prompt, a file and an output path returned after
\* one call of optimize.
C23_Witness ==
    /\ cli.at = "done"
    /\ Truthy(cli.prompt) /\ Truthy(cli.file) /\ Truthy(cli.output)
    /\ cli.prompts_file.state = "readable"
    /\ Ops = <<"optimize">>
    /\ cli.output_file = NoFile

\* A run with only a file and an output path wrote the records of two
\* prompts after the report.
FileModeWrote ==
    /\ cli.at = "done"
    /\ ~Truthy(cli.prompt) /\ Truthy(cli.file) /\ Truthy(cli.output)
    /\ Len(cli.output_file.content) = 2
    /\ cli.stdout = <<"report", "saved">>

\* C30: main never calls optimize with an empty prompt: an empty --prompt is
\* handled as no prompt (file mode or the usage message), blank lines are
\* removed before batch_optimize, and no run of main raises the
\* ZeroDivisionError of the estimate.
C30_NoEmptyPromptFromMain ==
    /\ cli.raised # "ZeroDivisionError"
    /\ \A c \in 1..Len(calls) :
           /\ calls[c].op = "optimize" => calls[c].prompt # <<>>
           /\ calls[c].op = "batch_optimize" =>
                  /\ \A k \in 1..Len(calls[c].prompts) : calls[c].prompts[k] # <<>>
                  /\ calls[c].outcome.raised = "none"
    /\ cli.prompt = "empty" =>
           /\ \A c \in 1..Len(calls) : calls[c].op # "optimize"
           /\ cli.at = "done" =>
                  IF Truthy(cli.file)
                  THEN Ops = <<"batch_optimize", "generate_report">>
                  ELSE cli.stdout = <<"usage">>

\* C30 witness: a run with --prompt "" and a file that holds a blank line
\* and a prompt returned from file mode with one record.
C30_Witness ==
    /\ cli.at = "done"
    /\ cli.prompt = "empty"
    /\ Truthy(cli.file)
    /\ \E i \in 1..Len(cli.prompts_file.lines) : ~NonBlank(cli.prompts_file.lines[i])
    /\ Len(cli.results) = 1

====
